---- MODULE Spec2Model ----
(***************************************************************************)
(* roast-log: the bounded response cache (CacheManager), the remote        *)
(* generation client (AnthropicClient), the orchestrator (HumorEngine)     *)
(* with its phrase table (HumorDatabase), the content classifier           *)
(* (ContentAnalyzer), the console.log interceptor (LoggerInterceptor),     *)
(* the configuration store (ConfigurationManager) and the facade           *)
(* (ConsoleRoast) as state machines.                                       *)
(*                                                                         *)
(* Time is the value Date.now() returns, in milliseconds.  It advances     *)
(* only through Tick, in steps of TickMs, so that two operations may read  *)
(* the same clock value (as two calls within one millisecond do).  A timer *)
(* (the backoff delay, the request timeout) is not tied to the clock: it   *)
(* may fire at any clock value, which admits every run in which it fires   *)
(* on time; the delay a backoff asks for is kept in the call's record.     *)
(***************************************************************************)
EXTENDS Integers, Sequences, FiniteSets, TLC

VARIABLES
    now,        \* Date.now()
    cache,      \* CacheManager.cache: the Map, as the sequence of its entries in insertion order
    maxSize,    \* CacheManager.maxSize
    hits,       \* CacheManager.hits
    misses,     \* CacheManager.misses
    hung,       \* TRUE once a cache operation has entered a loop it never leaves
    ret         \* the last cache operation performed and the value it returned
                \* (val is <<>> for null or void, <<v>> for a value v)

VARIABLES
    apiKey,                 \* AnthropicClient.config.apiKey (NoKey when undefined)
    client,                 \* AnthropicClient.client is not null
    rateLimitInfo,          \* AnthropicClient.rateLimitInfo: remaining, resetTime
    circuitBreakerState,    \* AnthropicClient.circuitBreakerState
    failureCount,           \* AnthropicClient.failureCount
    lastFailureTime,        \* AnthropicClient.lastFailureTime (NoTime when null)
    calls,                  \* the generateHumor calls: where each one stands
    streak                  \* history: calls that exhausted their attempts since
                            \* construction or the last successful call

VARIABLES
    config,         \* HumorEngine.config: apiKey, humorLevel, fallbackToLocal, cacheSize
    humorEntries,   \* HumorDatabase.humorEntries
    eng,            \* the HumorEngine.generateHumor calls: where each one stands
    selected        \* the last HumorEngine.selectHumorType call: its argument and result

VARIABLES
    lastIndex,      \* ContentAnalyzer.errorPatterns[i].lastIndex
    analysis        \* the last analyze call: its input and what it returned

VARIABLES
    managerConfig,      \* ConfigurationManager.config
    isInitialized,      \* ConsoleRoast.isInitialized
    isEnabled,          \* ConsoleRoast.isEnabled
    consoleLog,         \* the function console.log holds
    isIntercepted,      \* LoggerInterceptor.isIntercepted, per interceptor
    originalConsoleLog, \* LoggerInterceptor.originalConsoleLog, per interceptor
    logCount,           \* LoggerInterceptor.logCount, per interceptor
    logs,               \* the console.log calls: where each one stands and what
                        \* it has written
    thrown              \* the last ConsoleRoast or ConfigurationManager method
                        \* called and the message of the error it threw ("" for none)

cacheVars == <<cache, maxSize, hits, misses, hung, ret>>
clientVars == <<apiKey, client, rateLimitInfo, circuitBreakerState, failureCount,
                lastFailureTime, calls, streak>>
engineVars == <<config, humorEntries, eng, selected>>
analyzerVars == <<lastIndex, analysis>>
roastVars == <<managerConfig, isInitialized, isEnabled, consoleLog, isIntercepted,
               originalConsoleLog, logCount, logs, thrown>>
vars == <<now, cache, maxSize, hits, misses, hung, ret, apiKey, client, rateLimitInfo,
          circuitBreakerState, failureCount, lastFailureTime, calls, streak,
          config, humorEntries, eng, selected, lastIndex, analysis,
          managerConfig, isInitialized, isEnabled, consoleLog, isIntercepted,
          originalConsoleLog, logCount, logs, thrown>>

----------------------------------------------------------------------------
(* Bounds of the model *)

MaxCap == 2         \* capacities 0..MaxCap are constructed and set
MaxCount == 1       \* cap on hits, misses and an entry's accessCount
MaxCacheTicks == 1  \* the cache's clock runs from 0 to MaxCacheTicks * TickMs
MaxTicks == 4       \* the client's clock runs from 0 to MaxTicks * TickMs
MaxFailures == 6    \* cap on failureCount

Keys == {"", "a", "b"}
Responses == {"r1", "r2"}
Null == "null"

----------------------------------------------------------------------------
(* The clock *)

circuitBreakerTimeout == 60000     \* AnthropicClient.circuitBreakerTimeout
TickMs == circuitBreakerTimeout \div 2

CacheTick ==
    /\ ~hung
    /\ now + TickMs <= MaxCacheTicks * TickMs
    /\ now' = now + TickMs
    /\ UNCHANGED <<cacheVars, clientVars, engineVars, analyzerVars, roastVars>>

----------------------------------------------------------------------------
(* JavaScript Map, kept as a sequence of entries in insertion order.  Each  *)
(* entry carries its key beside the CacheEntry fields.                      *)

MapKeys(m) == {m[i].key : i \in 1..Len(m)}
MapHas(m, k) == k \in MapKeys(m)
MapIndex(m, k) == CHOOSE i \in 1..Len(m) : m[i].key = k
MapGet(m, k) == m[MapIndex(m, k)]
MapDelete(m, k) == SelectSeq(m, LAMBDA e : e.key # k)
\* Map.prototype.set: an existing key keeps its position, a new key goes last
MapSet(m, k, e) ==
    IF MapHas(m, k)
    THEN [i \in 1..Len(m) |-> IF m[i].key = k THEN e ELSE m[i]]
    ELSE Append(m, e)

\* JavaScript truthiness of a string value: only the empty string is falsy
Truthy(k) == k # ""

Entry(k, r, t, c) == [key |-> k, response |-> r, timestamp |-> t, accessCount |-> c]

----------------------------------------------------------------------------
(* CacheManager *)

\* evictLRU: delete the first key of the Map, if that key is truthy
evictLRU(m) ==
    IF Len(m) = 0 THEN m
    ELSE LET firstKey == m[1].key
         IN IF Truthy(firstKey) THEN MapDelete(m, firstKey) ELSE m

\* get: a hit bumps accessCount, refreshes the timestamp and moves the entry last
CacheGet(k) ==
    /\ ~hung
    /\ IF MapHas(cache, k)
       THEN /\ hits < MaxCount
            /\ MapGet(cache, k).accessCount < MaxCount
            /\ LET old == MapGet(cache, k)
                   entry == Entry(k, old.response, now, old.accessCount + 1)
               IN /\ cache' = MapSet(MapDelete(cache, k), k, entry)
                  /\ ret' = [op |-> "get", key |-> k, arg |-> Null, val |-> <<entry>>]
            /\ hits' = hits + 1
            /\ UNCHANGED misses
       ELSE /\ misses < MaxCount
            /\ misses' = misses + 1
            /\ ret' = [op |-> "get", key |-> k, arg |-> Null, val |-> <<>>]
            /\ UNCHANGED <<cache, hits>>
    /\ UNCHANGED <<now, maxSize, hung, clientVars, engineVars, analyzerVars, roastVars>>

\* set as it would be if an update kept the stored response
SetResult_KeepsOldResponse(m, cap, k, r, t) ==
    IF cap = 0 THEN m
    ELSE IF MapHas(m, k)
    THEN LET old == MapGet(m, k)
         IN MapSet(MapDelete(m, k), k, Entry(k, old.response, t, old.accessCount))
    ELSE LET m1 == IF Len(m) >= cap THEN evictLRU(m) ELSE m
         IN MapSet(m1, k, Entry(k, r, t, 0))

\* set as it would be if it stored nothing
SetResult_StoresNothing(m, cap, k, r, t) == m

\* the Map after set(k, r)
SetResult(m, cap, k, r, t) ==
    IF cap = 0 THEN m
    ELSE IF MapHas(m, k)
    THEN LET old == MapGet(m, k)
         IN MapSet(MapDelete(m, k), k, Entry(k, r, t, old.accessCount))
    ELSE LET m1 == IF Len(m) >= cap THEN evictLRU(m) ELSE m
         IN MapSet(m1, k, Entry(k, r, t, 0))

CacheSet(k, r) ==
    /\ ~hung
    /\ cache' = SetResult(cache, maxSize, k, r, now)
    /\ ret' = [op |-> "set", key |-> k, arg |-> r, val |-> <<>>]
    /\ UNCHANGED <<now, maxSize, hits, misses, hung, clientVars, engineVars, analyzerVars, roastVars>>

CacheClear ==
    /\ ~hung
    /\ cache' = <<>>
    /\ hits' = 0
    /\ misses' = 0
    /\ ret' = [op |-> "clear", key |-> Null, arg |-> Null, val |-> <<>>]
    /\ UNCHANGED <<now, maxSize, hung, clientVars, engineVars, analyzerVars, roastVars>>

\* cleanup(maxAgeMs): delete every entry older than maxAgeMs, return how many
CleanupResult(m, maxAgeMs, t) == SelectSeq(m, LAMBDA e : ~(t - e.timestamp > maxAgeMs))

CacheCleanup(maxAgeMs) ==
    /\ ~hung
    /\ cache' = CleanupResult(cache, maxAgeMs, now)
    /\ ret' = [op |-> "cleanup", key |-> Null, arg |-> maxAgeMs,
               val |-> <<Len(cache) - Len(cache')>>]
    /\ UNCHANGED <<now, maxSize, hits, misses, hung, clientVars, engineVars, analyzerVars, roastVars>>

\* the loop of setMaxSize: evict while the size exceeds the limit.  An
\* iteration that removes nothing leaves the loop condition true for ever.
RECURSIVE EvictLoop(_, _)
EvictLoop(m, n) ==
    IF ~(Len(m) > n) THEN m
    ELSE LET m1 == evictLRU(m)
         IN IF m1 = m THEN m ELSE EvictLoop(m1, n)

CacheSetMaxSize(n) ==
    /\ ~hung
    /\ maxSize' = n
    /\ cache' = EvictLoop(cache, n)
    /\ hung' = (Len(cache') > n)
    /\ ret' = [op |-> "setMaxSize", key |-> Null, arg |-> n, val |-> <<>>]
    /\ UNCHANGED <<now, hits, misses, clientVars, engineVars, analyzerVars, roastVars>>

----------------------------------------------------------------------------
(* AnthropicClient *)

maxFailures == 5
maxRetries == 3
baseDelay == 1000
requestsPerMinute == 100
rateLimitWindow == 60000

NoKey == "undefined"
NoTime == -1
ApiKeys == {"k1"}
Procs == {"c1", "c2"}

\* what the race of the transport request against the timeout can yield:
\* a response with usable text, a response with no content, a response whose
\* text is blank, a rejection, or the timeout
Outcomes == {"text", "empty", "blank", "reject", "timeout"}
Resolved(o) == o \in {"text", "empty", "blank"}

\* the message of the error makeApiCall throws on each outcome but "text"
ErrorOf(o) ==
    CASE o = "empty" -> "Empty response from API"
      [] o = "blank" -> "Empty humor response"
      [] o = "reject" -> "API Error"
      [] o = "timeout" -> "API request timeout"
      [] OTHER -> "Unknown API error"

ErrBreaker == "Circuit breaker is open - API temporarily unavailable"
ErrUnavailable == "Anthropic client not available - missing API key"
ErrRateLimit == "Rate limit exceeded"
ErrNotInitialized == "Anthropic client not initialized"

IdleCall == [pc |-> "idle", attempt |-> 0, delayMs |-> 0, invoked |-> 0,
             probe |-> FALSE, result |-> <<>>]
Failure(err) == [success |-> FALSE, error |-> err, humor |-> ""]
Success(text) == [success |-> TRUE, error |-> "", humor |-> text]

isAvailable(c, key) == c /\ key # NoKey

\* the reset test as it would be if the cooldown had to be exceeded
shouldAttemptReset_Strict(last, t) ==
    IF last = NoTime THEN FALSE ELSE t - last > circuitBreakerTimeout

shouldAttemptReset(last, t) ==
    IF last = NoTime THEN FALSE ELSE t - last >= circuitBreakerTimeout

\* the rate-limit test as it would be with < for <=
RateLimited_Strict(info, t) == info.remaining < 0 /\ t < info.resetTime

\* the rate-limit test of generateHumor
RateLimited(info, t) == info.remaining <= 0 /\ t < info.resetTime

Max(a, b) == IF a >= b THEN a ELSE b

updateRateLimitInfo(info, t) ==
    LET dec == [info EXCEPT !.remaining = Max(0, info.remaining - 1)]
    IN IF t >= dec.resetTime
       THEN [remaining |-> requestsPerMinute, resetTime |-> t + rateLimitWindow]
       ELSE dec

\* onSuccess as it would be if it left the failure count alone
onSuccess_KeepsCount ==
    [state |-> "closed", failureCount |-> failureCount, lastFailureTime |-> NoTime]

\* onFailure as it would be if the threshold had to be exceeded
onFailure_Exceeds(count, t) ==
    [state |-> IF count + 1 > maxFailures THEN "open" ELSE circuitBreakerState,
     failureCount |-> count + 1,
     lastFailureTime |-> t]

\* onFailure as it would be if it kept the time of the first failure
onFailure_KeepsTime(count, t) ==
    [state |-> IF count + 1 >= maxFailures THEN "open" ELSE circuitBreakerState,
     failureCount |-> count + 1,
     lastFailureTime |-> IF lastFailureTime = NoTime THEN t ELSE lastFailureTime]

\* onFailure as it would be if it opened the breaker one failure later
onFailure_OpensLate(count, t) ==
    [state |-> IF count + 1 > maxFailures THEN "open" ELSE circuitBreakerState,
     failureCount |-> count + 1,
     lastFailureTime |-> t]

\* the breaker fields after onSuccess and after onFailure
onSuccess == [state |-> "closed", failureCount |-> 0, lastFailureTime |-> NoTime]

onFailure(count, t) ==
    [state |-> IF count + 1 >= maxFailures THEN "open" ELSE circuitBreakerState,
     failureCount |-> count + 1,
     lastFailureTime |-> t]

\* process.env.NODE_ENV === "test"
NodeEnvIsTest == FALSE
delay(ms) == IF NodeEnvIsTest THEN 1 ELSE ms

RECURSIVE Pow2(_)
Pow2(n) == IF n = 0 THEN 1 ELSE 2 * Pow2(n - 1)
\* the backoff as it would be without doubling
BackoffDelay_Constant(attempt) == baseDelay

BackoffDelay(attempt) == baseDelay * Pow2(attempt - 1)

SetBreaker(b) ==
    /\ circuitBreakerState' = b.state
    /\ failureCount' = b.failureCount
    /\ lastFailureTime' = b.lastFailureTime

\* the catch block of the retry loop, for the call record c of call p
Catch(p, c, err) ==
    IF c.attempt = maxRetries
    THEN /\ failureCount < MaxFailures
         /\ SetBreaker(onFailure(failureCount, now))
         /\ streak' = streak + 1
         /\ calls' = [calls EXCEPT ![p] = [c EXCEPT !.pc = "done",
                                                     !.result = <<Failure(err)>>]]
    ELSE /\ calls' = [calls EXCEPT ![p] = [c EXCEPT !.pc = "backoff",
                                                     !.delayMs = delay(BackoffDelay(c.attempt))]]
         /\ UNCHANGED <<circuitBreakerState, failureCount, lastFailureTime, streak>>

\* generateHumor from its entry to its first await: the breaker check, the
\* availability check, the rate-limit check and the first transport request
ClientStart(p) ==
    /\ calls[p].pc \in {"idle", "done"}
    /\ LET reset == circuitBreakerState = "open"
                    /\ shouldAttemptReset(lastFailureTime, now)
           blocked == circuitBreakerState = "open" /\ ~reset
           c == [IdleCall EXCEPT !.probe = reset]
           finish(err) == calls' = [calls EXCEPT ![p] =
                              [c EXCEPT !.pc = "done", !.result = <<Failure(err)>>]]
       IN /\ circuitBreakerState' = IF reset THEN "half-open" ELSE circuitBreakerState
          /\ IF blocked THEN finish(ErrBreaker)
             ELSE IF ~isAvailable(client, apiKey) THEN finish(ErrUnavailable)
             ELSE IF RateLimited(rateLimitInfo, now) THEN finish(ErrRateLimit)
             ELSE calls' = [calls EXCEPT ![p] =
                      [c EXCEPT !.pc = "awaiting", !.attempt = 1, !.invoked = 1]]
    /\ UNCHANGED <<now, cacheVars, engineVars, analyzerVars, roastVars, apiKey, client, rateLimitInfo, failureCount,
                   lastFailureTime, streak>>

\* the await of makeApiCall settles with outcome o
ClientSettle(p, o) ==
    /\ calls[p].pc = "awaiting"
    /\ rateLimitInfo' = IF Resolved(o) THEN updateRateLimitInfo(rateLimitInfo, now)
                        ELSE rateLimitInfo
    /\ IF o = "text"
       THEN /\ SetBreaker(onSuccess)
            /\ streak' = 0
            /\ calls' = [calls EXCEPT ![p] = [@ EXCEPT !.pc = "done",
                                                       !.result = <<Success("humor")>>]]
       ELSE Catch(p, calls[p], ErrorOf(o))
    /\ UNCHANGED <<now, cacheVars, engineVars, analyzerVars, roastVars, apiKey, client>>

\* the backoff delay ends and the loop makes its next attempt
ClientBackoffEnds(p) ==
    /\ calls[p].pc = "backoff"
    /\ LET c == [calls[p] EXCEPT !.attempt = @ + 1]
       IN IF ~client
          THEN Catch(p, c, ErrNotInitialized)
          ELSE /\ calls' = [calls EXCEPT ![p] = [c EXCEPT !.pc = "awaiting",
                                                          !.invoked = @ + 1]]
               /\ UNCHANGED <<circuitBreakerState, failureCount, lastFailureTime, streak>>
    /\ UNCHANGED <<now, cacheVars, engineVars, analyzerVars, roastVars, apiKey, client, rateLimitInfo>>

\* updateConfig with a configuration whose apiKey is key; ok tells whether
\* the Anthropic constructor returns (TRUE) or throws (FALSE)
ClientUpdateConfig(key, ok) ==
    /\ apiKey' = key
    /\ client' = IF key # NoKey /\ key # apiKey THEN ok
                 ELSE IF key = NoKey THEN FALSE
                 ELSE client
    /\ UNCHANGED <<now, cacheVars, engineVars, analyzerVars, roastVars, rateLimitInfo, circuitBreakerState, failureCount,
                   lastFailureTime, calls, streak>>

ClientTick ==
    /\ now + TickMs <= MaxTicks * TickMs
    /\ now' = now + TickMs
    /\ UNCHANGED <<cacheVars, clientVars, engineVars, analyzerVars, roastVars>>

\* the fields a constructor call with apiKey = key leaves behind
ClientConstructed(key, ok) ==
    /\ apiKey = key
    /\ client = (key # NoKey /\ ok)
    /\ rateLimitInfo = [remaining |-> requestsPerMinute, resetTime |-> now + rateLimitWindow]
    /\ circuitBreakerState = "closed"
    /\ failureCount = 0
    /\ lastFailureTime = NoTime
    /\ calls = [p \in Procs |-> IdleCall]
    /\ streak = 0

CacheConstructed(n) ==
    /\ cache = <<>>
    /\ maxSize = n
    /\ hits = 0
    /\ misses = 0
    /\ hung = FALSE
    /\ ret = [op |-> "new", key |-> Null, arg |-> n, val |-> <<>>]

----------------------------------------------------------------------------
(* JavaScript strings.  A string value is kept as the sequence of its      *)
(* characters, each character a one-character string.                      *)

Uppers == <<"A", "B", "C", "D", "E", "F", "G", "H", "I", "J", "K", "L", "M",
            "N", "O", "P", "Q", "R", "S", "T", "U", "V", "W", "X", "Y", "Z">>
Lowers == <<"a", "b", "c", "d", "e", "f", "g", "h", "i", "j", "k", "l", "m",
            "n", "o", "p", "q", "r", "s", "t", "u", "v", "w", "x", "y", "z">>
Digits == <<"0", "1", "2", "3", "4", "5", "6", "7", "8", "9">>
Range(s) == {s[i] : i \in 1..Len(s)}
WordChars == Range(Uppers) \cup Range(Lowers) \cup Range(Digits) \cup {"_"}

\* \s, \d and \w of a regular expression
IsSpace(c) == c \in {" ", "\t", "\n"}
IsDigit(c) == c \in Range(Digits)
IsWord(c) == c \in WordChars

LowerChar(c) ==
    IF \E i \in 1..Len(Uppers) : Uppers[i] = c
    THEN Lowers[CHOOSE i \in 1..Len(Uppers) : Uppers[i] = c]
    ELSE c
toLowerCase(s) == [i \in 1..Len(s) |-> LowerChar(s[i])]

\* String.prototype.includes
includes(s, t) ==
    \E i \in 0..(Len(s) - Len(t)) : \A j \in 1..Len(t) : s[i + j] = t[j]

\* Array.prototype.join
RECURSIVE join(_, _)
join(a, sep) ==
    IF Len(a) = 0 THEN <<>>
    ELSE IF Len(a) = 1 THEN a[1]
    ELSE a[1] \o sep \o join(Tail(a), sep)

\* the string literals of the source, spelled out

Chars(w) ==
    CASE w = "error" -> <<"e", "r", "r", "o", "r">>
      [] w = "exception" -> <<"e", "x", "c", "e", "p", "t", "i", "o", "n">>
      [] w = "fail" -> <<"f", "a", "i", "l">>
      [] w = "undefined" -> <<"u", "n", "d", "e", "f", "i", "n", "e", "d">>
      [] w = "null" -> <<"n", "u", "l", "l">>
      [] w = "success" -> <<"s", "u", "c", "c", "e", "s", "s">>
      [] w = "complete" -> <<"c", "o", "m", "p", "l", "e", "t", "e">>
      [] w = "done" -> <<"d", "o", "n", "e">>
      [] w = "finished" -> <<"f", "i", "n", "i", "s", "h", "e", "d">>
      [] w = "ok" -> <<"o", "k">>
      [] w = "object" -> <<"o", "b", "j", "e", "c", "t">>
      [] w = "array" -> <<"a", "r", "r", "a", "y">>
      [] w = "string" -> <<"s", "t", "r", "i", "n", "g">>
      [] w = "number" -> <<"n", "u", "m", "b", "e", "r">>
      [] w = "boolean" -> <<"b", "o", "o", "l", "e", "a", "n">>
      [] w = "log" -> <<"l", "o", "g">>
      [] w = "debug" -> <<"d", "e", "b", "u", "g">>
      [] w = "info" -> <<"i", "n", "f", "o">>
      [] w = "console" -> <<"c", "o", "n", "s", "o", "l", "e">>
      [] w = "simple" -> <<"s", "i", "m", "p", "l", "e">>
      [] w = "medium" -> <<"m", "e", "d", "i", "u", "m">>
      [] w = "complex" -> <<"c", "o", "m", "p", "l", "e", "x">>
      [] w = "positive" -> <<"p", "o", "s", "i", "t", "i", "v", "e">>
      [] w = "negative" -> <<"n", "e", "g", "a", "t", "i", "v", "e">>
      [] w = "neutral" -> <<"n", "e", "u", "t", "r", "a", "l">>
      [] w = "mild" -> <<"m", "i", "l", "d">>
      [] w = "savage" -> <<"s", "a", "v", "a", "g", "e">>
      [] w = "true" -> <<"t", "r", "u", "e">>
      [] w = "false" -> <<"f", "a", "l", "s", "e">>
      [] w = "json" -> <<"j", "s", "o", "n">>
      [] w = "[Object]" -> <<"[", "O", "b", "j", "e", "c", "t", "]">>
      [] w = "hello" -> <<"h", "e", "l", "l", "o">>
      [] w = "hello world" -> <<"h", "e", "l", "l", "o", " ", "w", "o", "r", "l", "d">>
      [] w = "failed" -> <<"f", "a", "i", "l", "e", "d">>
      [] w = "failure" -> <<"f", "a", "i", "l", "u", "r", "e">>
      [] w = "crash" -> <<"c", "r", "a", "s", "h">>
      [] w = "fatal" -> <<"f", "a", "t", "a", "l">>
      [] w = "critical" -> <<"c", "r", "i", "t", "i", "c", "a", "l">>
      [] w = "warning" -> <<"w", "a", "r", "n", "i", "n", "g">>
      [] w = "warn" -> <<"w", "a", "r", "n">>
      [] w = "stack trace" -> <<"s", "t", "a", "c", "k", " ", "t", "r", "a", "c", "e">>
      [] w = "passed" -> <<"p", "a", "s", "s", "e", "d">>
      [] w = "resolved" -> <<"r", "e", "s", "o", "l", "v", "e", "d">>
      [] w = "connected" -> <<"c", "o", "n", "n", "e", "c", "t", "e", "d">>
      [] w = "good" -> <<"g", "o", "o", "d">>
      [] w = "great" -> <<"g", "r", "e", "a", "t">>
      [] w = "awesome" -> <<"a", "w", "e", "s", "o", "m", "e">>
      [] w = "perfect" -> <<"p", "e", "r", "f", "e", "c", "t">>
      [] w = "working" -> <<"w", "o", "r", "k", "i", "n", "g">>
      [] w = "fixed" -> <<"f", "i", "x", "e", "d">>
      [] w = "bad" -> <<"b", "a", "d">>
      [] w = "terrible" -> <<"t", "e", "r", "r", "i", "b", "l", "e">>
      [] w = "broken" -> <<"b", "r", "o", "k", "e", "n">>
      [] w = "issue" -> <<"i", "s", "s", "u", "e">>
      [] w = "problem" -> <<"p", "r", "o", "b", "l", "e", "m">>
      [] w = "bug" -> <<"b", "u", "g">>
      [] w = "date" -> <<"d", "a", "t", "e">>
      [] w = "[Object object]" -> <<"[", "O", "b", "j", "e", "c", "t", " ", "o", "b", "j", "e", "c", "t", "]">>
      [] w = "x at f:1:2" -> <<"x", " ", "a", "t", " ", "f", ":", "1", ":", "2">>
      [] w = "a" -> <<"a">>
      [] w = "b" -> <<"b">>
      [] w = "name" -> <<"n", "a", "m", "e">>
      [] w = "self" -> <<"s", "e", "l", "f">>
      [] w = "test" -> <<"t", "e", "s", "t">>
      [] w = "42" -> <<"4", "2">>
      [] w = "1" -> <<"1">>
      [] w = "all done" -> <<"a", "l", "l", " ", "d", "o", "n", "e">>
      [] w = "a@b.co" -> <<"a", "@", "b", ".", "c", "o">>
      [] w = "c@d.co" -> <<"c", "@", "d", ".", "c", "o">>
      [] w = "******" -> <<"*", "*", "*", "*", "*", "*">>

----------------------------------------------------------------------------
(* HumorDatabase.  An entry is a HumorEntry: triggers (strings), responses *)
(* (texts), humorLevel and category.  A text is an opaque string; the      *)
(* default phrases are named by category, level and position.              *)

MaxPhrases == 1     \* responses kept of each default entry and fallback list

Undefined == "undefined"    \* the JavaScript value undefined, where a text is expected
\* JavaScript truthiness of a value that is a text, null or undefined
TruthyText(x) == x \notin {"", Null, Undefined}

HumorLevels == <<"mild", "medium", "savage">>
Categories == <<"error", "success", "data", "general">>
PhrasesPerEntry == 5

Min(a, b) == IF a <= b THEN a ELSE b
Phrases(category, level) ==
    [i \in 1..Min(MaxPhrases, PhrasesPerEntry) |-> ToString(<<category, level, i>>)]

Triggers(category) ==
    CASE category = "error" ->
           <<Chars("error"), Chars("exception"), Chars("fail"), Chars("undefined"), Chars("null")>>
      [] category = "success" ->
           <<Chars("success"), Chars("complete"), Chars("done"), Chars("finished"), Chars("ok")>>
      [] category = "data" ->
           <<Chars("object"), Chars("array"), Chars("string"), Chars("number"), Chars("boolean")>>
      [] category = "general" ->
           <<Chars("log"), Chars("debug"), Chars("info"), Chars("console")>>

HumorEntry(t, r, level, category) ==
    [triggers |-> t, responses |-> r, humorLevel |-> level, category |-> category]

\* initializeDefaultHumor: for each category in turn, one entry per level
initializeDefaultHumor ==
    [i \in 1..(Len(Categories) * Len(HumorLevels)) |->
        LET category == Categories[((i - 1) \div Len(HumorLevels)) + 1]
            level == HumorLevels[((i - 1) % Len(HumorLevels)) + 1]
        IN HumorEntry(Triggers(category), Phrases(category, level), level, category)]

matchesCategory(entry, a) ==
    CASE entry.category = "error" -> a.isError \/ a.sentiment = "negative"
      [] entry.category = "success" -> a.sentiment = "positive"
      [] entry.category = "data" -> Len(a.dataTypes) > 0
      [] entry.category = "general" -> TRUE
      [] OTHER -> FALSE

matchesTriggers(entry, a) ==
    LET content == toLowerCase(a.sanitizedContent)
    IN \E i \in 1..Len(entry.triggers) :
        LET trigger == toLowerCase(entry.triggers[i])
        IN \/ \E j \in 1..Len(a.dataTypes) : includes(toLowerCase(a.dataTypes[j]), trigger)
           \/ \E j \in 1..Len(a.patterns) : includes(toLowerCase(a.patterns[j]), trigger)
           \/ includes(content, trigger)

getHumor(entries, a, level) ==
    SelectSeq(entries, LAMBDA e :
        e.humorLevel = level /\ (matchesTriggers(e, a) \/ matchesCategory(e, a)))

\* responses[Math.floor(Math.random() * responses.length)]: every value the
\* expression can have; with no responses it is responses[0], undefined
RandomResponse(entry) ==
    IF Len(entry.responses) = 0 THEN {Undefined} ELSE Range(entry.responses)

\* getRandomHumor: every value it can return
getRandomHumor(entries, category, level) ==
    LET matchingEntries ==
            SelectSeq(entries, LAMBDA e : e.category = category /\ e.humorLevel = level)
    IN IF Len(matchingEntries) = 0 THEN {Null}
       ELSE UNION {RandomResponse(matchingEntries[i]) : i \in 1..Len(matchingEntries)}

----------------------------------------------------------------------------
(* CacheManager.generateKey *)

\* replace(/\s+/g, ' '): each run of whitespace becomes one space
collapseWhitespace(s) ==
    LET kept == SelectSeq([i \in 1..Len(s) |-> i],
                          LAMBDA i : ~IsSpace(s[i]) \/ i = 1 \/ ~IsSpace(s[i - 1]))
    IN [j \in 1..Len(kept) |-> IF IsSpace(s[kept[j]]) THEN " " ELSE s[kept[j]]]

\* String.prototype.trim
RECURSIVE trimStart(_)
trimStart(s) == IF Len(s) > 0 /\ IsSpace(s[1]) THEN trimStart(Tail(s)) ELSE s
RECURSIVE trimEnd(_)
trimEnd(s) ==
    IF Len(s) > 0 /\ IsSpace(s[Len(s)]) THEN trimEnd(SubSeq(s, 1, Len(s) - 1)) ELSE s
trim(s) == trimEnd(trimStart(s))

\* replace(/[^\w\s]/g, '')
stripSpecial(s) == SelectSeq(s, LAMBDA c : IsWord(c) \/ IsSpace(c))

keyLimit == 1000
substring(s, n) == SubSeq(s, 1, Min(Len(s), n))

normalizeContent(s) ==
    substring(stripSpecial(trim(collapseWhitespace(toLowerCase(s)))), keyLimit)

\* the first 16 hexadecimal digits of the SHA-256 digest, taken to be free of
\* collisions: distinct strings get distinct, non-empty keys
sha256hex16(s) == ToString(s)

generateKey(s) == sha256hex16(normalizeContent(s))

----------------------------------------------------------------------------
(* HumorEngine *)

MaxAdded == 1       \* entries addHumor may add to the phrase table

\* a logged value: a string, an object (text is JSON.stringify's result,
\* unless the object is circular and JSON.stringify throws) or any other
\* value (text is String's result)
StringItem(t) == [kind |-> "string", text |-> t, circular |-> FALSE]
CircularObject == [kind |-> "object", text |-> <<>>, circular |-> TRUE]

LongText == [i \in 1..keyLimit |-> "a"]

ContentAnalysis(types, complexity, isError, sentiment, patterns, sanitized) ==
    [dataTypes |-> types, complexity |-> complexity, isError |-> isError,
     sentiment |-> sentiment, patterns |-> patterns, sanitizedContent |-> sanitized]

\* the calls the model makes: content and the classification passed with it
Inputs ==
    << [content |-> <<StringItem(Chars("error")), CircularObject>>,
        analysis |-> ContentAnalysis(<<Chars("string"), Chars("object")>>, "medium", TRUE,
                                     "negative", <<Chars("error")>>, Chars("error"))],
       [content |-> <<StringItem(Chars("hello"))>>,
        analysis |-> ContentAnalysis(<<Chars("string")>>, "simple", FALSE, "neutral",
                                     <<>>, Chars("hello"))],
       [content |-> <<StringItem(LongText)>>,
        analysis |-> ContentAnalysis(<<Chars("string")>>, "medium", FALSE, "neutral",
                                     <<>>, LongText)],
       [content |-> <<>>,
        analysis |-> ContentAnalysis(<<>>, "simple", FALSE, "neutral", <<>>, <<>>)],
       [content |-> <<StringItem(Chars("a@b.co"))>>,
        analysis |-> ContentAnalysis(<<Chars("string")>>, "simple", FALSE, "neutral",
                                     <<>>, Chars("******"))],
       [content |-> <<StringItem(Chars("c@d.co"))>>,
        analysis |-> ContentAnalysis(<<Chars("string")>>, "simple", FALSE, "neutral",
                                     <<>>, Chars("******"))] >>

EngineLevels == {"mild", "savage"}
Configs ==
    [apiKey : ApiKeys \cup {NoKey}, humorLevel : EngineLevels,
     fallbackToLocal : BOOLEAN, cacheSize : {0, MaxCap}]

\* the entries addHumor is called with: one that has no responses
AddedEntries == { HumorEntry(<<>>, <<>>, "mild", "general") }

localConfidence == 7    \* 0.7, in tenths
\* the confidence of a remote result as it would be if it were the local one
apiConfidence_AsLocal == localConfidence
apiConfidence == 9      \* 0.9, in tenths

\* a response as it would be if every response were labelled as remote
HumorResponse_AlwaysApi(text, confidence, source, cached) ==
    [text |-> text, confidence |-> confidence, source |-> "api", cached |-> cached]

HumorResponse(text, confidence, source, cached) ==
    [text |-> text, confidence |-> confidence, source |-> source, cached |-> cached]

itemString(item) ==
    IF item.kind = "object" /\ item.circular THEN Chars("[Object]") ELSE item.text

EngProcs == {"e1", "e2"}
\* a call's record: where it stands, its input, the cache key it computed
\* (<<>> is null), how its lookup went ("hit", "miss", "threw"), whether it
\* invoked the remote client and how that call settled ("failed": rejected or
\* success = false; "empty": success with no text; "text"), whether it invoked
\* the local generator, whether it called cacheManager.set and whether that
\* threw, what it returned, and the arguments it handed to the remote client
\* (<<>> for no remote call)
IdleEngineCall ==
    [pc |-> "idle", input |-> 0, cacheKey |-> <<>>, lookup |-> "none", api |-> FALSE,
     apiOutcome |-> "none", local |-> FALSE, setCalled |-> FALSE, setThrew |-> FALSE,
     result |-> <<>>, request |-> <<>>]

\* the logged values as one text
loggedText(content) ==
    join([i \in 1..Len(content) |-> itemString(content[i])], <<" ">>)

\* a remote request that carries the logged values as they are
RemoteRequest_RawContent(input) ==
    [content |-> loggedText(input.content), context |-> input.analysis]

\* generateFromApi: anthropicClient.generateHumor(analysis.sanitizedContent,
\* analysis)
RemoteRequest(input) ==
    [content |-> input.analysis.sanitizedContent, context |-> input.analysis]

generateCacheKey(content, a, level) ==
    LET contentString == join([i \in 1..Len(content) |-> itemString(content[i])], <<" ">>)
        keyFactors == << contentString,
                         join(a.dataTypes, <<",">>),
                         Chars(a.complexity),
                         Chars(IF a.isError THEN "true" ELSE "false"),
                         Chars(a.sentiment),
                         join(a.patterns, <<",">>),
                         Chars(level) >>
    IN generateKey(join(keyFactors, <<"|">>))

\* generateCacheKey, tabulated over the inputs and the levels of the model
CacheKeys ==
    [i \in 1..Len(Inputs) |->
        [level \in EngineLevels |->
            generateCacheKey(Inputs[i].content, Inputs[i].analysis, level)]]

\* a selection that looks at the data before the sentiment
selectHumorType_DataFirst(a) ==
    IF a.isError \/ a.sentiment = "negative" THEN "error"
    ELSE IF \/ Chars("json") \in Range(a.patterns) \/ Chars("array") \in Range(a.patterns)
            \/ Chars("object") \in Range(a.dataTypes) \/ Chars("array") \in Range(a.dataTypes)
         THEN "data"
    ELSE IF a.sentiment = "positive" THEN "success"
    ELSE "general"

\* HumorEngine.selectHumorType
selectHumorType(a) ==
    IF a.isError \/ a.sentiment = "negative" THEN "error"
    ELSE IF a.sentiment = "positive" THEN "success"
    ELSE IF \/ Chars("json") \in Range(a.patterns) \/ Chars("array") \in Range(a.patterns)
            \/ Chars("object") \in Range(a.dataTypes) \/ Chars("array") \in Range(a.dataTypes)
         THEN "data"
    ELSE "general"

\* getUltimateFallback: every phrase it can return
getUltimateFallback(level) ==
    LET fallbacks == IF level \in Range(HumorLevels) THEN level ELSE "mild"
    IN Range(Phrases("fallback", fallbacks))

\* matchesTriggers, tabulated over the inputs of the model and the trigger
\* lists of its entries
TriggerLists == {Triggers(Categories[i]) : i \in 1..Len(Categories)} \cup {<<>>}
TriggerMatches ==
    [i \in 1..Len(Inputs) |->
        {t \in TriggerLists : matchesTriggers([triggers |-> t], Inputs[i].analysis)}]

\* getHumor, reading matchesTriggers from the table
getHumorOf(entries, i, level) ==
    SelectSeq(entries, LAMBDA e :
        /\ e.humorLevel = level
        /\ (e.triggers \in TriggerMatches[i] \/ matchesCategory(e, Inputs[i].analysis)))

\* generateFromLocal for input i: every value it can return
generateFromLocal(entries, i, level) ==
    LET a == Inputs[i].analysis
        humorType == selectHumorType(a)
        matchingHumor == getHumorOf(entries, i, level)
        general == UNION { IF TruthyText(g) THEN {g} ELSE getUltimateFallback(level) :
                           g \in getRandomHumor(entries, "general", level) }
    IN IF Len(matchingHumor) > 0
       THEN UNION {RandomResponse(matchingHumor[j]) : j \in 1..Len(matchingHumor)}
       ELSE UNION { IF TruthyText(c) THEN {c} ELSE general :
                    c \in getRandomHumor(entries, humorType, level) }

\* shouldUseApi as it would be if fallbackToLocal were not consulted
shouldUseApi_IgnoresPreference ==
    config.apiKey # NoKey /\ isAvailable(client, apiKey)

shouldUseApi ==
    config.apiKey # NoKey /\ isAvailable(client, apiKey) /\ config.fallbackToLocal # FALSE

\* what the await of anthropicClient.generateHumor can settle with: a
\* rejection (<<>>) or an ApiResponse; the responses are those the client's
\* calls end with, and a success that carries no text
ApiResults ==
    {<<>>, <<Success("humor")>>, <<Success("")>>}
    \cup {<<Failure(e)>> : e \in {ErrBreaker, ErrUnavailable, ErrRateLimit,
                                  ErrorOf("reject"), ErrorOf("timeout")}}

GetRecord(k, v) == [op |-> "get", key |-> k, arg |-> Null, val |-> v]
SetRecord(k, r) == [op |-> "set", key |-> k, arg |-> r, val |-> <<>>]

\* the Map after get(k)
GetResult(m, k, t) ==
    IF MapHas(m, k)
    THEN LET old == MapGet(m, k)
         IN MapSet(MapDelete(m, k), k, Entry(k, old.response, t, old.accessCount + 1))
    ELSE m

\* what a cache hit returns, as it would be if the flag were left as stored
CachedResponse_AsStored(entry) == entry.response

\* what a cache hit returns: the stored response, marked as served from cache
CachedResponse(entry) == [entry.response EXCEPT !.cached = TRUE]

\* the end of generateHumor: store the response under the call's key, if it
\* has one, and return it; setThrows tells whether cacheManager.set throws
Finish(p, c, resp, r, setThrows) ==
    LET keyed == c.cacheKey # <<>> /\ Truthy(c.cacheKey[1])
    IN /\ IF keyed /\ ~setThrows
          THEN /\ cache' = SetResult(cache, maxSize, c.cacheKey[1], resp, now)
               /\ ret' = SetRecord(c.cacheKey[1], resp)
          ELSE /\ cache' = cache
               /\ ret' = r
       /\ eng' = [eng EXCEPT ![p] = [c EXCEPT !.pc = "done", !.setCalled = keyed,
                                               !.setThrew = keyed /\ setThrows,
                                               !.result = <<resp>>]]

\* the fallback to the phrase table, at the level configured when it runs
Local(p, c, r, setThrows) ==
    \E text \in generateFromLocal(humorEntries, c.input, config.humorLevel) :
        Finish(p, [c EXCEPT !.local = TRUE],
               HumorResponse(text, localConfidence, "local", FALSE), r, setThrows)

\* the catch block of the lookup, as it would be if it kept the key
CatchKey_KeepsKey(key) == <<key>>

\* the catch block of the lookup: cacheKey = null
CatchKey(key) == <<>>

\* generateHumor from its entry to its first await or, with no remote call,
\* to its end; getThrows tells whether cacheManager.get throws
EngineStart(p, i, getThrows, setThrows) ==
    /\ eng[p].pc \in {"idle", "done"}
    /\ ~hung
    /\ LET key == CacheKeys[i][config.humorLevel]
           c == [IdleEngineCall EXCEPT !.input = i]
           continue(d, r) ==
               IF shouldUseApi
               THEN /\ eng' = [eng EXCEPT ![p] =
                                  [d EXCEPT !.pc = "api", !.api = TRUE,
                                            !.request = <<RemoteRequest(Inputs[i])>>]]
                    /\ cache' = cache
                    /\ ret' = r
               ELSE Local(p, d, r, setThrows)
       IN IF getThrows
          THEN /\ continue([c EXCEPT !.lookup = "threw", !.cacheKey = CatchKey(key)], ret)
               /\ UNCHANGED <<hits, misses>>
          ELSE IF MapHas(cache, key)
          THEN /\ hits < MaxCount
               /\ MapGet(cache, key).accessCount < MaxCount
               /\ cache' = GetResult(cache, key, now)
               /\ ret' = GetRecord(key, <<MapGet(cache', key)>>)
               /\ hits' = hits + 1
               /\ eng' = [eng EXCEPT ![p] =
                     [c EXCEPT !.pc = "done", !.lookup = "hit", !.cacheKey = <<key>>,
                               !.result = <<CachedResponse(MapGet(cache, key))>>]]
               /\ UNCHANGED misses
          ELSE /\ misses < MaxCount
               /\ misses' = misses + 1
               /\ continue([c EXCEPT !.lookup = "miss", !.cacheKey = <<key>>],
                           GetRecord(key, <<>>))
               /\ UNCHANGED hits
    /\ UNCHANGED <<now, maxSize, hung, clientVars, config, humorEntries, selected,
                   analyzerVars, roastVars>>

\* the await of the remote call settles with r
EngineApiSettles(p, r, setThrows) ==
    /\ eng[p].pc = "api"
    /\ ~hung
    /\ LET failed == r = <<>> \/ ~r[1].success
           usable == ~failed /\ TruthyText(r[1].humor)
           c == [eng[p] EXCEPT !.apiOutcome = IF failed THEN "failed"
                                              ELSE IF usable THEN "text" ELSE "empty"]
       IN IF usable
          THEN Finish(p, c, HumorResponse(r[1].humor, apiConfidence, "api", FALSE),
                      ret, setThrows)
          ELSE Local(p, c, ret, setThrows)
    /\ UNCHANGED <<now, maxSize, hits, misses, hung, clientVars, config, humorEntries, selected,
                   analyzerVars, roastVars>>

\* HumorEngine.updateConfig: the engine's configuration, the client's
\* updateConfig and the cache's setMaxSize
EngineUpdateConfig(cfg, ok) ==
    /\ ~hung
    /\ config' = cfg
    /\ apiKey' = cfg.apiKey
    /\ client' = IF cfg.apiKey # NoKey /\ cfg.apiKey # apiKey THEN ok
                 ELSE IF cfg.apiKey = NoKey THEN FALSE
                 ELSE client
    /\ maxSize' = cfg.cacheSize
    /\ cache' = EvictLoop(cache, cfg.cacheSize)
    /\ hung' = (Len(cache') > cfg.cacheSize)
    /\ ret' = [op |-> "setMaxSize", key |-> Null, arg |-> cfg.cacheSize, val |-> <<>>]
    /\ UNCHANGED <<now, hits, misses, rateLimitInfo, circuitBreakerState, failureCount,
                   lastFailureTime, calls, streak, humorEntries, eng, selected,
                   analyzerVars, roastVars>>

\* HumorDatabase.addHumor
addHumor(entry) ==
    /\ Len(SelectSeq(humorEntries, LAMBDA e : e \in AddedEntries)) < MaxAdded
    /\ humorEntries' = Append(humorEntries, entry)
    /\ UNCHANGED <<now, cacheVars, clientVars, config, eng, selected, analyzerVars,
                   roastVars>>

\* the engine and its collaborators as ConsoleRoast constructs them from one
\* configuration; entries is the phrase table of the IHumorDatabase passed in
EngineConstructed(cfg, entries) ==
    /\ config = cfg
    /\ humorEntries = entries
    /\ selected = <<>>
    /\ eng = [p \in EngProcs |-> IdleEngineCall]

----------------------------------------------------------------------------
(* ContentAnalyzer *)

\* the element of a one-element set; { e(x) : x \in {v} } computes v once
Only(S) == CHOOSE x \in S : TRUE
MaxOf(S) == Only({ CHOOSE x \in T : \A y \in T : y <= x : T \in {S} })
MinOf(S) == Only({ CHOOSE x \in T : \A y \in T : x <= y : T \in {S} })

\* JavaScript values as analyze receives them.  A primitive carries the text
\* String() gives for it; an object is a reference into a heap of objects,
\* each with its class, its enumerable own properties in order, and whether
\* obj.hasOwnProperty resolves to Object.prototype's function (it does not
\* for an object without prototype, nor when an own property hides it).
JsString(t) == [tag |-> "string", text |-> t, ref |-> 0]
JsNumber(t) == [tag |-> "number", text |-> t, ref |-> 0]
JsNull == [tag |-> "null", text |-> Chars("null"), ref |-> 0]
JsUndefined == [tag |-> "undefined", text |-> Chars("undefined"), ref |-> 0]
JsObject(id) == [tag |-> "object", text |-> <<>>, ref |-> id]
Property(key, value) == [key |-> key, value |-> value]
HeapObject(class, props, callable) ==
    [class |-> class, props |-> props, hasOwnProperty |-> callable]

typeof(v) == IF v.tag \in {"null", "object"} THEN "object" ELSE v.tag

Spaces(n) == [i \in 1..n |-> " "]

\* JSON.stringify(item, null, 2) on a value: <<text>>, or <<>> when it throws
\* on a circular structure.  The strings of the model hold no character that
\* JSON escapes.
RECURSIVE stringify(_, _, _, _)
stringify(heap, v, path, indent) ==
    IF v.tag = "string" THEN << <<"\"">> \o v.text \o <<"\"">> >>
    ELSE IF v.tag = "undefined" THEN << Chars("null") >>
    ELSE IF v.tag # "object" THEN << v.text >>
    ELSE IF v.ref \in path THEN <<>>
    ELSE LET obj == heap[v.ref]
             isArray == obj.class = "Array"
             props == IF isArray THEN obj.props
                      ELSE SelectSeq(obj.props, LAMBDA q : q.value.tag # "undefined")
             members == [j \in 1..Len(props) |->
                           stringify(heap, props[j].value, path \cup {v.ref}, indent + 2)]
             line(j) == Spaces(indent + 2)
                        \o (IF isArray THEN <<>>
                            ELSE <<"\"">> \o props[j].key \o <<"\"", ":", " ">>)
                        \o members[j][1]
             open == IF isArray THEN "[" ELSE "{"
             close == IF isArray THEN "]" ELSE "}"
         IN IF \E j \in 1..Len(props) : members[j] = <<>> THEN <<>>
            ELSE IF Len(props) = 0 THEN << <<open, close>> >>
            ELSE << <<open, "\n">>
                    \o join([j \in 1..Len(props) |-> line(j)], <<",", "\n">>)
                    \o <<"\n">> \o Spaces(indent) \o <<close>> >>

processContent(content, heap) ==
    LET text(item) ==
            IF typeof(item) = "string" THEN item.text
            ELSE IF typeof(item) = "object" /\ item.tag # "null"
            THEN LET json == stringify(heap, item, {}, 0)
                 IN IF json = <<>> THEN Chars("[Object object]") ELSE json[1]
            ELSE item.text
    IN join([i \in 1..Len(content) |-> text(content[i])], <<" ">>)

\* the type name detectDataTypes adds for one item
typeName(item, heap) ==
    IF item.tag = "null" THEN "null"
    ELSE IF item.tag = "undefined" THEN "undefined"
    ELSE IF item.tag = "object" /\ heap[item.ref].class = "Array" THEN "array"
    ELSE IF item.tag = "object" /\ heap[item.ref].class = "Error" THEN "error"
    ELSE IF item.tag = "object" /\ heap[item.ref].class = "Date" THEN "date"
    ELSE typeof(item)

\* a Set keeps the order of first insertion
RECURSIVE detectDataTypes(_, _)
detectDataTypes(content, heap) ==
    IF Len(content) = 0 THEN <<>>
    ELSE LET front == detectDataTypes(SubSeq(content, 1, Len(content) - 1), heap)
             name == typeName(content[Len(content)], heap)
         IN IF name \in Range(front) THEN front ELSE Append(front, name)

depthCap == 10
Raised == -1    \* the outcome of a call that throws

\* the loop over the keys from key j on; a key of an object whose
\* hasOwnProperty is no function makes the call throw
RECURSIVE getObjectDepth(_, _, _)
RECURSIVE forKeys(_, _, _, _, _)
forKeys(heap, obj, depth, j, maxDepth) ==
    IF j > Len(obj.props) THEN maxDepth
    ELSE IF ~obj.hasOwnProperty THEN Raised
    ELSE Only({ IF currentDepth = Raised THEN Raised
                ELSE forKeys(heap, obj, depth, j + 1,
                             IF currentDepth > maxDepth THEN currentDepth ELSE maxDepth) :
                currentDepth \in {getObjectDepth(heap, obj.props[j].value, depth + 1)} })

getObjectDepth(heap, v, depth) ==
    IF depth > depthCap THEN depth
    ELSE IF typeof(v) # "object" \/ v.tag = "null" THEN depth
    ELSE forKeys(heap, heap[v.ref], depth, 1, depth)

\* The regular expressions of the analyzer.  A literal pattern carries the i
\* flag; stackLine is /\bat\s+.*:\d+:\d+/ and stackAt is /\s+at\s+/, both
\* case-sensitive.  All carry the g flag.
Literal(w) == [kind |-> "literal", word |-> Chars(w)]
errorPatterns ==
    << Literal("error"), Literal("exception"), Literal("failed"), Literal("failure"),
       Literal("crash"), Literal("fatal"), Literal("critical"), Literal("warning"),
       Literal("warn"), Literal("stack trace"),
       [kind |-> "stackLine", word |-> <<>>], [kind |-> "stackAt", word |-> <<>>] >>
successPatterns ==
    << Literal("success"), Literal("complete"), Literal("finished"), Literal("done"),
       Literal("ok"), Literal("passed"), Literal("resolved"), Literal("connected") >>

\* the character classes \s, \d and . of the patterns
InClass(class, c) ==
    CASE class = "s" -> IsSpace(c)
      [] class = "d" -> IsDigit(c)
      [] class = "." -> c # "\n"

\* how many characters from index i on (0-based) are in the class, without
\* a gap
RECURSIVE Run(_, _, _)
Run(class, s, i) ==
    IF i + 1 > Len(s) THEN 0
    ELSE IF ~InClass(class, s[i + 1]) THEN 0
    ELSE 1 + Run(class, s, i + 1)

\* the index after the match of :\d+:\d+ that begins at index r, or -1
TailEnd(s, r) ==
    LET d1 == Run("d", s, r + 1)
        d2 == Run("d", s, r + 1 + d1 + 1)
    IN IF /\ r + 1 <= Len(s) /\ s[r + 1] = ":"
          /\ d1 >= 1
          /\ r + 1 + d1 + 1 <= Len(s) /\ s[r + 1 + d1 + 1] = ":"
          /\ d2 >= 1
       THEN r + 1 + d1 + 1 + d2
       ELSE -1

\* the index after the match of the pattern that begins at index i, or -1;
\* quantifiers are greedy and give back what a later part needs
MatchEnd(pattern, s, i) ==
    CASE pattern.kind = "literal" ->
           IF /\ i + Len(pattern.word) <= Len(s)
              /\ \A j \in 1..Len(pattern.word) : LowerChar(s[i + j]) = pattern.word[j]
           THEN i + Len(pattern.word) ELSE -1
      [] pattern.kind = "stackAt" ->
           LET before == Run("s", s, i)
               a == i + before
               after == Run("s", s, a + 2)
           IN IF /\ before >= 1
                 /\ a + 2 <= Len(s) /\ s[a + 1] = "a" /\ s[a + 2] = "t"
                 /\ after >= 1
              THEN a + 2 + after ELSE -1
      [] pattern.kind = "stackLine" ->
           \* <<k, r>>: \s+ takes k whitespace characters, .* ends at index r
           \* and :\d+:\d+ matches from r; the longest k, then the longest .*
           LET tails(k) == {r \in (i + 2 + k)..(i + 2 + k + Run(".", s, i + 2 + k)) :
                              TailEnd(s, r) >= 0}
               ways == UNION {{<<k, r>> : r \in tails(k)} : k \in 1..Run("s", s, i + 2)}
               first(W) == CHOOSE w \in W : \A v \in W :
                               v[1] < w[1] \/ (v[1] = w[1] /\ v[2] <= w[2])
           IN IF /\ i = 0 \/ ~IsWord(s[i])
                 /\ i + 2 <= Len(s) /\ s[i + 1] = "a" /\ s[i + 2] = "t"
              THEN Only({ IF W = {} THEN -1 ELSE TailEnd(s, first(W)[2]) : W \in {ways} })
              ELSE -1

\* RegExp.prototype.test on a pattern with the g flag: the search starts at
\* lastIndex; a match leaves lastIndex after it, a failure resets it to 0
test(pattern, s, li) ==
    LET starts == {i \in li..Len(s) : MatchEnd(pattern, s, i) >= 0}
    IN IF li > Len(s) \/ starts = {}
       THEN [found |-> FALSE, lastIndex |-> 0]
       ELSE [found |-> TRUE, lastIndex |-> MatchEnd(pattern, s, MinOf(starts))]

\* patterns.some(pattern => pattern.test(s)): the patterns are tested in
\* order up to the first that matches; li holds the lastIndex of every
\* pattern, and a pattern's test reads and writes only its own
some(patterns, s, li) ==
    LET matching == {p \in 1..Len(patterns) : test(patterns[p], s, li[p]).found}
        first == MinOf(matching)
    IN IF matching = {}
       THEN [found |-> FALSE, lastIndex |-> [p \in 1..Len(patterns) |-> 0]]
       ELSE [found |-> TRUE,
             lastIndex |-> [p \in 1..Len(patterns) |->
                              IF p < first THEN 0
                              ELSE IF p = first
                              THEN test(patterns[p], s, li[p]).lastIndex
                              ELSE li[p]]]

\* patterns.map(p => new RegExp(p.source, p.flags)): every lastIndex is 0
fresh(patterns) == [p \in 1..Len(patterns) |-> 0]

\* content.forEach over the first n items: the points their depths add, or
\* Raised when getObjectDepth throws
RECURSIVE depthScore(_, _, _)
depthScore(content, heap, n) ==
    IF n = 0 THEN 0
    ELSE LET item == content[n]
             before == depthScore(content, heap, n - 1)
             depth == IF typeof(item) = "object" /\ item.tag # "null"
                      THEN getObjectDepth(heap, item, 0) ELSE 0
         IN IF before = Raised \/ depth = Raised THEN Raised
            ELSE before + (IF depth > 4 THEN 3
                           ELSE IF depth > 3 THEN 2
                           ELSE IF depth > 1 THEN 1 ELSE 0)

\* the complexity score before the patterns are tested: by length, by
\* number of arguments and by the depth of the objects; Raised when
\* getObjectDepth throws
structureScore(content, heap, processedContent) ==
    LET byLength == IF Len(processedContent) > 5000 THEN 3
                    ELSE IF Len(processedContent) > 1000 THEN 2
                    ELSE IF Len(processedContent) > 50 THEN 1 ELSE 0
        byCount == IF Len(content) > 8 THEN 3
                   ELSE IF Len(content) > 5 THEN 2
                   ELSE IF Len(content) > 3 THEN 1 ELSE 0
        byDepth == depthScore(content, heap, Len(content))
    IN IF byDepth = Raised THEN Raised ELSE byLength + byCount + byDepth

\* assessComplexity from the score of the structure on: the test of the
\* shared errorPatterns, whose lastIndex values are li, and the verdict
assessComplexity(score, processedContent, li) ==
    LET tested == some(errorPatterns, processedContent, li)
        complexityScore == score + (IF tested.found THEN 1 ELSE 0)
    IN IF score = Raised
       THEN [raised |-> TRUE, complexity |-> "", lastIndex |-> li]
       ELSE [raised |-> FALSE,
             complexity |-> IF complexityScore >= 4 THEN "complex"
                            ELSE IF complexityScore >= 1 THEN "medium" ELSE "simple",
             lastIndex |-> tested.lastIndex]

detectErrors(content) == some(errorPatterns, content, fresh(errorPatterns)).found

positiveWords == <<"good", "great", "awesome", "perfect", "working", "fixed">>
negativeWords == <<"bad", "terrible", "broken", "issue", "problem", "bug">>

analyzeSentiment(content) ==
    LET lowerContent == toLowerCase(content)
        count(words) == Cardinality({i \in 1..Len(words) :
                                       includes(lowerContent, Chars(words[i]))})
        positiveScore ==
            (IF some(successPatterns, content, fresh(successPatterns)).found
             THEN 2 ELSE 0) + count(positiveWords)
        negativeScore ==
            (IF some(errorPatterns, content, fresh(errorPatterns)).found
             THEN 2 ELSE 0) + count(negativeWords)
    IN IF positiveScore > negativeScore THEN "positive"
       ELSE IF negativeScore > positiveScore THEN "negative"
       ELSE "neutral"

\* the logged values the model analyzes, each with its heap of objects:
\* strings that match error and success patterns, a stack trace line, the
\* circular object of the test suite, an object without prototype
\* (Object.create(null) with a property a = 1), mixed values with a nested
\* array, no values, two strings, and one object of depth 2 logged three
\* times
AnalyzerInputs ==
    << [content |-> <<JsString(Chars("error"))>>, heap |-> <<>>],
       [content |-> <<JsString(Chars("warning"))>>, heap |-> <<>>],
       [content |-> <<JsString(Chars("all done"))>>, heap |-> <<>>],
       [content |-> <<JsString(Chars("x at f:1:2"))>>, heap |-> <<>>],
       [content |-> <<JsObject(1)>>,
        heap |-> << HeapObject("Object",
                               << Property(Chars("name"), JsString(Chars("test"))),
                                  Property(Chars("self"), JsObject(1)) >>, TRUE) >>],
       [content |-> <<JsObject(1)>>,
        heap |-> << HeapObject("Object",
                               << Property(Chars("a"), JsNumber(Chars("1"))) >>, FALSE) >>],
       [content |-> <<JsString(Chars("failed")), JsNumber(Chars("42")), JsNull,
                      JsUndefined, JsObject(1)>>,
        heap |-> << HeapObject("Array", << Property(<<"0">>, JsObject(2)),
                                           Property(<<"1">>, JsUndefined) >>, TRUE),
                    HeapObject("Object", << Property(Chars("a"), JsObject(3)),
                                            Property(Chars("b"), JsUndefined) >>, TRUE),
                    HeapObject("Error", <<>>, TRUE) >>],
       [content |-> <<>>, heap |-> <<>>],
       [content |-> <<JsString(Chars("crash")), JsString(Chars("bug"))>>, heap |-> <<>>],
       [content |-> <<JsObject(1), JsObject(1), JsObject(1)>>,
        heap |-> << HeapObject("Object", << Property(Chars("a"), JsObject(2)) >>, TRUE),
                    HeapObject("Object", << Property(Chars("b"), JsNumber(Chars("1"))) >>,
                               TRUE) >>] >>

\* what analyze computes from the input alone, for every input of the model
Processed ==
    [i \in 1..Len(AnalyzerInputs) |->
       Only({ [processedContent |-> processedContent,
               dataTypes |-> detectDataTypes(input.content, input.heap),
               score |-> structureScore(input.content, input.heap, processedContent),
               isError |-> detectErrors(processedContent),
               sentiment |-> analyzeSentiment(processedContent)] :
              <<input, processedContent>> \in
                  { <<AnalyzerInputs[i],
                      processContent(AnalyzerInputs[i].content, AnalyzerInputs[i].heap)>> } })]

\* ContentAnalyzer.analyze on input i with the patterns' lastIndex values li:
\* what the call returns, or that it throws, and the lastIndex values it
\* leaves.  sanitize and detectPatterns read only the processed content, each
\* through RegExp objects made for the call, so the classification is kept
\* with the processed content in the place of sanitizedContent and patterns.
analyze(i, li) ==
    Only({ IF assessed.raised
           THEN [raised |-> TRUE, value |-> <<>>, lastIndex |-> li]
           ELSE [raised |-> FALSE,
                 value |-> << [dataTypes |-> p.dataTypes,
                               complexity |-> assessed.complexity,
                               isError |-> p.isError,
                               sentiment |-> p.sentiment,
                               processedContent |-> p.processedContent] >>,
                 lastIndex |-> assessed.lastIndex] :
           <<p, assessed>> \in
               { <<q, assessComplexity(q.score, q.processedContent, li)>> :
                 q \in {Processed[i]} } })

\* one analyze call; analysis keeps the input of the last call and what
\* the call answered
Analyze(i) ==
    \E r \in {analyze(i, lastIndex)} :
       /\ lastIndex' = r.lastIndex
       /\ analysis' = << [input |-> i, raised |-> r.raised, value |-> r.value] >>
       /\ UNCHANGED <<now, cacheVars, clientVars, engineVars, roastVars>>

AnalyzerConstructed ==
    /\ lastIndex = fresh(errorPatterns)
    /\ analysis = <<>>

----------------------------------------------------------------------------
(* LoggerInterceptor *)

MaxBind == 2        \* console.log is bound at most MaxBind deep
MaxLogs == 3        \* cap on logCount where the calls themselves are followed
MaxGateLogs == 101  \* cap on logCount where only the gate is followed
MaxRoastLogs == 1   \* cap on logCount where the ConsoleRoast methods are followed

\* Function values.  Native is the function console.log holds before any
\* interception, Bound(f) is f.bind(console), Enhanced(i) is the arrow
\* function interceptor i installs.
Native == <<"native">>
Bound(f) == <<"bound">> \o f
Enhanced(i) == <<"enhanced", i>>
\* the function a call of f ends up in: a bound function calls its target
RECURSIVE Target(_)
Target(f) == IF f[1] = "bound" THEN Target(Tail(f)) ELSE f

Interceptors == {"i1", "i2"}
LogProcs == {"l1", "l2"}

\* the argument lists console.log is called with
LogArgs ==
    { <<>>, <<JsString(Chars("error"))>>, <<JsString(Chars("error")), JsNull>> }

\* a line written by the function console.log held at the start: the
\* arguments of a call, or an annotation
OriginalLine(args) == [kind |-> "original", args |-> args]
HumorLine == [kind |-> "humor", args |-> <<>>]

\* a console.log call: where it stands, its arguments, the interceptor whose
\* enhancedLog it entered ("" for none), whether it was counted, whether it
\* started an annotation attempt (processLogWithHumor) and with which
\* logCount, the lines it has written in order, whether it threw to its
\* caller and whether it called console.warn
IdleLog ==
    [pc |-> "idle", args |-> <<>>, via |-> "", counted |-> FALSE,
     attempt |-> FALSE, n |-> 0, written |-> <<>>, threw |-> FALSE,
     warned |-> FALSE]

\* a gate that counts the calls from 0 instead of from 1
shouldApplyHumor_CountsFromZero(cfg, count) ==
    IF cfg.frequency = 0 THEN FALSE
    ELSE IF cfg.frequency >= 100 THEN TRUE
    ELSE ((count - 1) % 100) < cfg.frequency

\* LoggerInterceptor.shouldApplyHumor with logCount = count
shouldApplyHumor(cfg, count) ==
    IF cfg.frequency = 0 THEN FALSE
    ELSE IF cfg.frequency >= 100 THEN TRUE
    ELSE (count % 100) < cfg.frequency

\* the fields the LoggerInterceptor constructors leave behind when console.log
\* holds f
InterceptorsConstructed(f) ==
    /\ isIntercepted = [i \in Interceptors |-> FALSE]
    /\ originalConsoleLog = [i \in Interceptors |-> Bound(f)]
    /\ logCount = [i \in Interceptors |-> 0]

intercept(i) ==
    IF isIntercepted[i]
    THEN UNCHANGED <<consoleLog, isIntercepted, originalConsoleLog>>
    ELSE /\ originalConsoleLog' = [originalConsoleLog EXCEPT ![i] = Bound(consoleLog)]
         /\ consoleLog' = Enhanced(i)
         /\ isIntercepted' = [isIntercepted EXCEPT ![i] = TRUE]

restore(i) ==
    IF ~isIntercepted[i]
    THEN UNCHANGED <<consoleLog, isIntercepted, originalConsoleLog>>
    ELSE /\ consoleLog' = originalConsoleLog[i]
         /\ isIntercepted' = [isIntercepted EXCEPT ![i] = FALSE]
         /\ UNCHANGED originalConsoleLog

\* LoggerInterceptor.enhancedLog(message, ...args) of interceptor i, from its
\* entry to its return, with the asynchronous processLogWithHumor up to its
\* first await.  getConfigThrows and analyzeThrows say whether the
\* configuration manager and the content analyzer throw in this call.  The
\* original console.log of the interceptor is a function that writes the
\* line.
enhancedLog(i, p, call, message, args, cap, getConfigThrows, analyzeThrows) ==
    LET cfg == managerConfig
        c == [IdleLog EXCEPT !.args = call, !.via = i]
        line == OriginalLine(<<message>> \o args)
        plain == [c EXCEPT !.pc = "done", !.written = <<line>>]
    IN /\ Target(originalConsoleLog[i]) = Native
       /\ IF getConfigThrows
          THEN /\ logs' = [logs EXCEPT ![p] = plain]
               /\ UNCHANGED logCount
          ELSE IF ~cfg.enabled
          THEN /\ logs' = [logs EXCEPT ![p] = plain]
               /\ UNCHANGED logCount
          ELSE /\ logCount[i] < cap
               /\ logCount' = [logCount EXCEPT ![i] = @ + 1]
               /\ IF ~shouldApplyHumor(cfg, logCount[i] + 1)
                  THEN logs' = [logs EXCEPT ![p] =
                                  [plain EXCEPT !.counted = TRUE, !.n = logCount[i] + 1]]
                  ELSE logs' = [logs EXCEPT ![p] =
                                  [c EXCEPT !.counted = TRUE, !.n = logCount[i] + 1,
                                            !.attempt = TRUE, !.written = <<line>>,
                                            !.pc = IF analyzeThrows THEN "done"
                                                   ELSE "awaiting",
                                            !.warned = analyzeThrows]]

\* an installed function that passes on the first argument only
installed_DropsRest(i, p, call, cap, getConfigThrows, analyzeThrows) ==
    enhancedLog(i, p, call,
                IF Len(call) = 0 THEN JsUndefined ELSE call[1],
                <<>>,
                cap, getConfigThrows, analyzeThrows)

\* the arrow function intercept() installs:
\* (...args) => { this.enhancedLog(args[0], ...args.slice(1)) }
installed(i, p, call, cap, getConfigThrows, analyzeThrows) ==
    enhancedLog(i, p, call,
                IF Len(call) = 0 THEN JsUndefined ELSE call[1],
                IF Len(call) = 0 THEN <<>> ELSE Tail(call),
                cap, getConfigThrows, analyzeThrows)

\* a call console.log(...call) on what console.log holds
ConsoleLog(p, call, cap, getConfigThrows, analyzeThrows) ==
    /\ ~hung
    /\ logs[p].pc \in {"idle", "done"}
    /\ IF Target(consoleLog) = Native
       THEN /\ logs' = [logs EXCEPT ![p] =
                          [IdleLog EXCEPT !.pc = "done", !.args = call,
                                          !.written = <<OriginalLine(call)>>]]
            /\ UNCHANGED logCount
       ELSE installed(Target(consoleLog)[2], p, call, cap, getConfigThrows,
                      analyzeThrows)
    /\ UNCHANGED <<now, cacheVars, clientVars, engineVars, analyzerVars, managerConfig,
                   isInitialized, isEnabled, consoleLog, isIntercepted,
                   originalConsoleLog, thrown>>

\* what the await of humorEngine.generateHumor can settle with: a response
\* with a text, a response whose text is empty or undefined, a rejection
HumorOutcomes == {"text", "empty", "rejected"}

\* processLogWithHumor from its await on
HumorSettles(p, outcome) ==
    /\ ~hung
    /\ logs[p].pc = "awaiting"
    /\ Target(originalConsoleLog[logs[p].via]) = Native
    /\ logs' = [logs EXCEPT ![p] =
                  [@ EXCEPT !.pc = "done",
                            !.written = IF outcome = "text"
                                        THEN Append(@, HumorLine) ELSE @,
                            !.warned = outcome = "rejected"]]
    /\ UNCHANGED <<now, cacheVars, clientVars, engineVars, analyzerVars, managerConfig,
                   isInitialized, isEnabled, consoleLog, isIntercepted,
                   originalConsoleLog, logCount, thrown>>

\* LoggerInterceptor.intercept and restore called on interceptor i
Intercept(i) ==
    /\ ~hung
    /\ Len(consoleLog) <= MaxBind
    /\ intercept(i)
    /\ UNCHANGED <<now, cacheVars, clientVars, engineVars, analyzerVars, managerConfig,
                   isInitialized, isEnabled, logCount, logs, thrown>>

Restore(i) ==
    /\ ~hung
    /\ restore(i)
    /\ UNCHANGED <<now, cacheVars, clientVars, engineVars, analyzerVars, managerConfig,
                   isInitialized, isEnabled, logCount, logs, thrown>>

\* LoggerInterceptor.resetStats
InterceptorResetStats(i) ==
    /\ ~hung
    /\ logCount' = [logCount EXCEPT ![i] = 0]
    /\ UNCHANGED <<now, cacheVars, clientVars, engineVars, analyzerVars, managerConfig,
                   isInitialized, isEnabled, consoleLog, isIntercepted,
                   originalConsoleLog, logs, thrown>>

----------------------------------------------------------------------------
(* ConfigurationManager *)

defaultConfig ==
    [humorLevel |-> "medium", frequency |-> 50, enabled |-> TRUE, cacheSize |-> 100,
     apiTimeout |-> 5000, fallbackToLocal |-> TRUE, apiKey |-> NoKey]

validHumorLevels == {"mild", "medium", "savage"}
minApiTimeout == 1000

\* String.prototype.trim on the keys that occur
trimKey(key) == IF key \in {"", " "} THEN "" ELSE key

\* a validation that accepts every partial configuration
validateConfig_AcceptsAll(partial) == TRUE

\* ConfigurationManager.validateConfig.  A partial configuration is a record
\* with some of the fields; every field present holds a value of its
\* declared type.
validateConfig(partial) ==
    /\ "humorLevel" \in DOMAIN partial => partial.humorLevel \in validHumorLevels
    /\ "frequency" \in DOMAIN partial =>
          ~(partial.frequency < 0 \/ partial.frequency > 100)
    /\ "cacheSize" \in DOMAIN partial => ~(partial.cacheSize < 0)
    /\ "apiTimeout" \in DOMAIN partial => ~(partial.apiTimeout < minApiTimeout)
    /\ "apiKey" \in DOMAIN partial => ~(trimKey(partial.apiKey) = "")

\* { ...this.config, ...config }
Merge(cfg, partial) ==
    [f \in DOMAIN cfg |-> IF f \in DOMAIN partial THEN partial[f] ELSE cfg[f]]

InvalidConfiguration == "Invalid configuration provided"
NotInitialized == "ConsoleRoast not properly initialized"
NoError == ""

\* what a method call leaves in thrown
Outcome(op, error) == [op |-> op, error |-> error]

----------------------------------------------------------------------------
(* ConsoleRoast *)

\* the LoggerInterceptor the ConsoleRoast instance owns
loggerInterceptor == "i1"

\* the part of the configuration the engine reads
EngineConfigOf(cfg) ==
    [apiKey |-> cfg.apiKey, humorLevel |-> cfg.humorLevel,
     fallbackToLocal |-> cfg.fallbackToLocal, cacheSize |-> cfg.cacheSize]

\* ConsoleRoast.enable and disable behind their initialization check
enable ==
    IF isEnabled
    THEN UNCHANGED <<consoleLog, isIntercepted, originalConsoleLog, isEnabled>>
    ELSE /\ intercept(loggerInterceptor)
         /\ isEnabled' = TRUE

\* a disable() that leaves the interceptor installed
disable_KeepsInterception ==
    IF ~isEnabled
    THEN UNCHANGED <<consoleLog, isIntercepted, originalConsoleLog, isEnabled>>
    ELSE /\ UNCHANGED <<consoleLog, isIntercepted, originalConsoleLog>>
         /\ isEnabled' = FALSE

disable ==
    IF ~isEnabled
    THEN UNCHANGED <<consoleLog, isIntercepted, originalConsoleLog, isEnabled>>
    ELSE /\ restore(loggerInterceptor)
         /\ isEnabled' = FALSE

\* CacheManager.clear as ConsoleRoast.clearCache calls it
clearCache ==
    /\ cache' = <<>>
    /\ hits' = 0
    /\ misses' = 0
    /\ ret' = [op |-> "clear", key |-> Null, arg |-> Null, val |-> <<>>]

\* humorEngine.updateConfig(cfg), anthropicClient.updateConfig(cfg) and
\* cacheManager.setMaxSize(cfg.cacheSize) in configure; the engine passes cfg
\* on to the same client and the same cache, so the second call of each
\* finds nothing to change.  ok says whether the client library can be
\* constructed for a new key.
propagate(cfg, ok) ==
    /\ config' = EngineConfigOf(cfg)
    /\ apiKey' = cfg.apiKey
    /\ client' = IF cfg.apiKey # NoKey /\ cfg.apiKey # apiKey THEN ok
                 ELSE IF cfg.apiKey = NoKey THEN FALSE
                 ELSE client
    /\ maxSize' = cfg.cacheSize
    /\ cache' = EvictLoop(cache, cfg.cacheSize)
    /\ hung' = (Len(cache') > cfg.cacheSize)
    /\ ret' = [op |-> "setMaxSize", key |-> Null, arg |-> cfg.cacheSize, val |-> <<>>]

\* an enable() without the initialization check
Enable_Unchecked ==
    /\ ~hung
    /\ ~isEnabled => Len(consoleLog) <= MaxBind
    /\ thrown' = Outcome("enable", NoError)
    /\ enable
    /\ UNCHANGED <<now, cacheVars, clientVars, engineVars, analyzerVars, managerConfig,
                   isInitialized, logCount, logs>>

Enable ==
    /\ ~hung
    /\ (isInitialized /\ ~isEnabled) => Len(consoleLog) <= MaxBind
    /\ IF ~isInitialized
       THEN /\ thrown' = Outcome("enable", NotInitialized)
            /\ UNCHANGED <<consoleLog, isIntercepted, originalConsoleLog, isEnabled>>
       ELSE /\ thrown' = Outcome("enable", NoError)
            /\ enable
    /\ UNCHANGED <<now, cacheVars, clientVars, engineVars, analyzerVars, managerConfig,
                   isInitialized, logCount, logs>>

Disable ==
    /\ ~hung
    /\ thrown' = Outcome("disable", NoError)
    /\ disable
    /\ UNCHANGED <<now, cacheVars, clientVars, engineVars, analyzerVars, managerConfig,
                   isInitialized, logCount, logs>>

\* ConsoleRoast.configure(partial).  A setMaxSize that never returns keeps
\* the call from reaching its enable/disable step.
Configure(partial, ok) ==
    /\ ~hung
    /\ IF ~isInitialized \/ ~validateConfig(partial)
       THEN /\ thrown' = Outcome("configure", IF ~isInitialized THEN NotInitialized
                                              ELSE InvalidConfiguration)
            /\ UNCHANGED <<cacheVars, apiKey, client, config, managerConfig, consoleLog,
                           isIntercepted, originalConsoleLog, isEnabled>>
       ELSE \E newConfig \in {Merge(managerConfig, partial)} :
               /\ (newConfig.enabled /\ ~isEnabled) => Len(consoleLog) <= MaxBind
               /\ managerConfig' = newConfig
               /\ propagate(newConfig, ok)
               /\ UNCHANGED <<hits, misses>>
               /\ thrown' = Outcome("configure", NoError)
               /\ IF hung'
                  THEN UNCHANGED <<consoleLog, isIntercepted, originalConsoleLog, isEnabled>>
                  ELSE IF newConfig.enabled /\ ~isEnabled THEN enable
                  ELSE IF ~newConfig.enabled /\ isEnabled THEN disable
                  ELSE UNCHANGED <<consoleLog, isIntercepted, originalConsoleLog, isEnabled>>
    /\ UNCHANGED <<now, rateLimitInfo, circuitBreakerState, failureCount, lastFailureTime,
                   calls, streak, humorEntries, eng, selected, analyzerVars,
                   isInitialized,
                   logCount, logs>>

ClearCache ==
    /\ ~hung
    /\ clearCache
    /\ thrown' = Outcome("clearCache", NoError)
    /\ UNCHANGED <<now, maxSize, hung, clientVars, engineVars, analyzerVars, managerConfig,
                   isInitialized, isEnabled, consoleLog, isIntercepted,
                   originalConsoleLog, logCount, logs>>

ResetStats ==
    /\ ~hung
    /\ logCount' = [logCount EXCEPT ![loggerInterceptor] = 0]
    /\ clearCache
    /\ thrown' = Outcome("resetStats", NoError)
    /\ UNCHANGED <<now, maxSize, hung, clientVars, engineVars, analyzerVars, managerConfig,
                   isInitialized, isEnabled, consoleLog, isIntercepted,
                   originalConsoleLog, logs>>

\* a cleanup() that leaves the initialized flag set
Cleanup_StaysInitialized ==
    /\ ~hung
    /\ disable
    /\ clearCache
    /\ isInitialized' = isInitialized
    /\ thrown' = Outcome("cleanup", NoError)
    /\ UNCHANGED <<now, maxSize, hung, clientVars, engineVars, analyzerVars, managerConfig,
                   logCount, logs>>

Cleanup ==
    /\ ~hung
    /\ disable
    /\ clearCache
    /\ isInitialized' = FALSE
    /\ thrown' = Outcome("cleanup", NoError)
    /\ UNCHANGED <<now, maxSize, hung, clientVars, engineVars, analyzerVars, managerConfig,
                   logCount, logs>>

\* ConsoleRoast.getMetrics().cacheHits: Math.round(size * hitRate), where
\* getStats has rounded hitRate to two decimals; hitRate100 is that hitRate
\* in hundredths
hitRate100(h, m) == IF h + m = 0 THEN 0 ELSE (200 * h + (h + m)) \div (2 * (h + m))
cacheHits == (2 * Len(cache) * hitRate100(hits, misses) + 100) \div 200

\* no ConsoleRoast instance: the configuration manager, the interceptors and
\* console.log as they are before one is constructed
NoRoast ==
    /\ managerConfig = defaultConfig
    /\ isInitialized = FALSE
    /\ isEnabled = FALSE
    /\ consoleLog = Native
    /\ InterceptorsConstructed(Native)
    /\ logs = [p \in LogProcs |-> IdleLog]
    /\ thrown = Outcome("new", NoError)

\* the instance new ConsoleRoast(initial) leaves behind, for a valid initial
\* partial configuration, no CONSOLE_ROAST_ environment variable and no
\* configuration file: the constructor enables the instance if the
\* configuration says so
RoastConstructed(initial) ==
    \E cfg \in {Merge(defaultConfig, initial)} :
       /\ managerConfig = cfg
       /\ isInitialized = TRUE
       /\ isEnabled = cfg.enabled
       /\ consoleLog = IF cfg.enabled THEN Enhanced(loggerInterceptor) ELSE Native
       /\ isIntercepted = [i \in Interceptors |-> i = loggerInterceptor /\ cfg.enabled]
       /\ originalConsoleLog = [i \in Interceptors |-> Bound(Native)]
       /\ logCount = [i \in Interceptors |-> 0]
       /\ logs = [p \in LogProcs |-> IdleLog]
       /\ thrown = Outcome("new", NoError)
       /\ CacheConstructed(cfg.cacheSize)
       /\ ClientConstructed(cfg.apiKey, TRUE)
       /\ EngineConstructed(EngineConfigOf(cfg), initializeDefaultHumor)
       /\ AnalyzerConstructed

----------------------------------------------------------------------------
(* The cache on its own: constructed with any capacity 0..MaxCap *)

InitCache ==
    /\ now = 0
    /\ \E n \in 0..MaxCap :
          /\ CacheConstructed(n)
          /\ EngineConstructed([apiKey |-> NoKey, humorLevel |-> "mild",
                                fallbackToLocal |-> TRUE, cacheSize |-> n],
                               initializeDefaultHumor)
    /\ ClientConstructed(NoKey, TRUE)
    /\ AnalyzerConstructed
    /\ NoRoast

NextCache ==
    \/ CacheTick
    \/ \E k \in Keys : CacheGet(k)
    \/ \E k \in Keys, r \in Responses : CacheSet(k, r)
    \/ CacheClear
    \/ \E a \in {0, TickMs} : CacheCleanup(a)
    \/ \E n \in 0..MaxCap : CacheSetMaxSize(n)

SpecCache == InitCache /\ [][NextCache]_vars

----------------------------------------------------------------------------
(* Claims about the cache, checked under SpecCache *)

\* C1: after any operation the number of stored entries is at most the
\* capacity, and with capacity 0 every get is a miss.
C1_CapacityInvariant ==
    ~hung =>
        /\ Len(cache) <= maxSize
        /\ (maxSize = 0 /\ ret.op = "get") => ret.val = <<>>

\* C2: a set that inserts a new key into a full cache removes exactly one
\* entry, and no entry was used (get or set) before the removed one.
C2_EvictsLeastRecent ==
    [][\A k \in Keys, r \in Responses :
        (CacheSet(k, r) /\ maxSize > 0 /\ ~MapHas(cache, k) /\ Len(cache) >= maxSize)
        => \E old \in MapKeys(cache) :
              /\ MapKeys(cache') = (MapKeys(cache) \ {old}) \cup {k}
              /\ \A j \in MapKeys(cache) :
                    MapGet(cache, old).timestamp <= MapGet(cache, j).timestamp
              /\ MapIndex(cache, old) = 1]_vars

\* C3: with capacity > 0, set(k, v) leaves k stored with response v, and an
\* update keeps the entry count; a get of a stored key returns the stored
\* response; and the response stored under a key changes only by a set on
\* that key.
C3_RoundTrip ==
    [][LET k == ret'.key
           r == ret'.arg
       IN /\ (ret'.op = "set" /\ maxSize > 0 /\ CacheSet(k, r))
             => /\ MapHas(cache', k)
                /\ MapGet(cache', k).response = r
                /\ MapHas(cache, k) => Len(cache') = Len(cache)
          /\ (ret'.op = "get" /\ MapHas(cache, k) /\ CacheGet(k))
             => /\ ret'.val # <<>>
                /\ ret'.val[1].response = MapGet(cache, k).response
                /\ MapGet(cache', k).response = MapGet(cache, k).response
          /\ \A j \in MapKeys(cache) \cap MapKeys(cache') :
                MapGet(cache', j).response # MapGet(cache, j).response
                => (ret'.op = "set" /\ k = j /\ CacheSet(k, r))]_vars

\* a get has returned the response of an entry that was overwritten by a
\* second set, in a cache holding two entries
C3_Witness ==
    /\ ret.op = "get"
    /\ ret.val # <<>>
    /\ ret.val[1].response = "r2"
    /\ Len(cache) = 2
    /\ maxSize = 2

----------------------------------------------------------------------------
(* The client on its own, one generateHumor call at a time *)

InitClient ==
    /\ now = 0
    /\ CacheConstructed(0)
    /\ \E key \in ApiKeys \cup {NoKey}, ok \in BOOLEAN :
          /\ ClientConstructed(key, ok)
          /\ EngineConstructed([apiKey |-> key, humorLevel |-> "mild",
                                fallbackToLocal |-> TRUE, cacheSize |-> 0],
                               initializeDefaultHumor)
    /\ AnalyzerConstructed
    /\ NoRoast

NextClient ==
    \/ ClientTick
    \/ ClientStart("c1")
    \/ \E o \in Outcomes : ClientSettle("c1", o)
    \/ ClientBackoffEnds("c1")
    \/ \E key \in ApiKeys \cup {NoKey}, ok \in BOOLEAN : ClientUpdateConfig(key, ok)

SpecClient == InitClient /\ [][NextClient]_vars

----------------------------------------------------------------------------
(* Claims about the client, checked under SpecClient.  Call c1 is the call  *)
(* in progress; a step that adds 1 to streak is the step in which a call    *)
(* has failed its last attempt.                                             *)

Blocked(c) == c.pc = "done" /\ c.result = <<Failure(ErrBreaker)>> /\ c.invoked = 0
Exhausted == streak' = streak + 1
Elapsed == now - lastFailureTime

\* C4: the call that completes a run of 5 exhausted calls with no success in
\* between leaves the breaker open, the breaker is not closed while such a
\* run stands, and a call entered while the breaker is open and the cooldown
\* has not elapsed fails with the breaker's error and no transport request.
C4_BreakerTrips ==
    [][/\ (Exhausted /\ streak' >= 5) => circuitBreakerState' = "open"
       /\ streak' >= 5 => circuitBreakerState' # "closed"
       /\ (circuitBreakerState = "open" /\ Elapsed < 60000 /\ ClientStart("c1"))
          => (Blocked(calls'["c1"]) /\ circuitBreakerState' = "open")]_vars

\* the sixth call after five exhausted ones was refused by the open breaker
C4_Witness ==
    /\ streak = 5
    /\ failureCount = 5
    /\ circuitBreakerState = "open"
    /\ Blocked(calls["c1"])

\* C5: a call entered while the breaker is open moves it to half-open when
\* at least 60 s have passed since the last failure, and then makes a
\* transport request if the client is available and the rate limit allows;
\* when less than 60 s have passed the breaker stays open.
C5_Cooldown ==
    [][(circuitBreakerState = "open" /\ ClientStart("c1"))
       => IF lastFailureTime # NoTime /\ Elapsed >= 60000
          THEN /\ circuitBreakerState' = "half-open"
               /\ (client /\ apiKey # NoKey
                   /\ ~(rateLimitInfo.remaining = 0 /\ now < rateLimitInfo.resetTime))
                  => (calls'["c1"].pc = "awaiting" /\ calls'["c1"].invoked = 1)
          ELSE /\ circuitBreakerState' = "open"
               /\ Blocked(calls'["c1"])]_vars

\* exactly 60 s after the last failure a call is probing the service
C5_Witness ==
    /\ circuitBreakerState = "half-open"
    /\ Elapsed = 60000
    /\ calls["c1"].pc = "awaiting"
    /\ calls["c1"].probe

\* C6: a step in which a call succeeds leaves failureCount 0, lastFailureTime
\* null and the breaker closed, and the breaker is never away from closed
\* with fewer than 5 exhausted calls since the last success.
C6_SuccessResets ==
    [][/\ \A p \in Procs :
            (calls[p].pc = "awaiting" /\ calls'[p].pc = "done"
             /\ calls'[p].result[1].success)
            => /\ failureCount' = 0
               /\ lastFailureTime' = NoTime
               /\ circuitBreakerState' = "closed"
       /\ circuitBreakerState' # "closed" => streak' >= 5]_vars

\* a probe made from half-open has succeeded on its third attempt and closed
\* the breaker
C6_Witness ==
    /\ calls["c1"].pc = "done"
    /\ calls["c1"].probe
    /\ calls["c1"].result[1].success
    /\ calls["c1"].invoked = 3
    /\ circuitBreakerState = "closed"
    /\ failureCount = 0

\* C7: when the call that moved the breaker to half-open fails its last
\* attempt, failureCount grows by one, the breaker is open and
\* lastFailureTime is the time of this failure; and a call entered after a
\* re-trip, less than 60 s after it, is refused without a transport request.
C7_ProbeRetrips ==
    [][/\ (Exhausted /\ calls["c1"].probe)
          => /\ failureCount' = failureCount + 1
             /\ circuitBreakerState' = "open"
             /\ lastFailureTime' = now
       /\ (failureCount > 5 /\ circuitBreakerState = "open" /\ Elapsed < 60000
           /\ ClientStart("c1"))
          => (Blocked(calls'["c1"]) /\ circuitBreakerState' = "open")]_vars

\* a call was refused 30 s after a failed probe, 90 s after the failure that
\* first opened the breaker
C7_Witness ==
    /\ failureCount = 6
    /\ circuitBreakerState = "open"
    /\ lastFailureTime = 60000
    /\ now = 90000
    /\ Blocked(calls["c1"])

C10_EveryAttemptCounted ==
    [][\A o \in Outcomes :
          ClientSettle("c1", o)
          => IF now >= rateLimitInfo.resetTime
             THEN rateLimitInfo'.remaining = requestsPerMinute
             ELSE rateLimitInfo'.remaining = Max(0, rateLimitInfo.remaining - 1)]_vars

----------------------------------------------------------------------------
(* The orchestrator, one generateHumor call at a time, over the cache, the  *)
(* client's availability and the default phrase table.  The engine sees the *)
(* client through isAvailable() and through the value generateHumor settles *)
(* with; the client's own state machine is SpecClient's.                    *)

ShortInputs == {2}

InitEngine ==
    /\ now = 0
    /\ \E cfg \in Configs, ok \in BOOLEAN :
          /\ CacheConstructed(cfg.cacheSize)
          /\ ClientConstructed(cfg.apiKey, ok)
          /\ EngineConstructed(cfg, initializeDefaultHumor)
    /\ AnalyzerConstructed
    /\ NoRoast

NextEngine ==
    \/ \E i \in ShortInputs, getThrows \in BOOLEAN, setThrows \in BOOLEAN :
          EngineStart("e1", i, getThrows, setThrows)
    \/ \E r \in ApiResults, setThrows \in BOOLEAN : EngineApiSettles("e1", r, setThrows)
    \/ \E cfg \in Configs, ok \in BOOLEAN : EngineUpdateConfig(cfg, ok)
    \/ CacheClear

SpecEngine == InitEngine /\ [][NextEngine]_vars

----------------------------------------------------------------------------
(* The orchestrator with no credentials configured, so that no call goes   *)
(* to the remote client: every input, either phrase table, and addHumor.   *)

LocalConfigs == {cfg \in Configs : cfg.apiKey = NoKey}

InitLocal ==
    /\ now = 0
    /\ \E cfg \in LocalConfigs, entries \in {initializeDefaultHumor, <<>>} :
          /\ CacheConstructed(cfg.cacheSize)
          /\ ClientConstructed(cfg.apiKey, TRUE)
          /\ EngineConstructed(cfg, entries)
    /\ AnalyzerConstructed
    /\ NoRoast

NextLocal ==
    \/ \E i \in 1..Len(Inputs), getThrows \in BOOLEAN, setThrows \in BOOLEAN :
          EngineStart("e1", i, getThrows, setThrows)
    \/ \E cfg \in LocalConfigs : EngineUpdateConfig(cfg, TRUE)
    \/ CacheClear
    \/ \E entry \in AddedEntries : addHumor(entry)

SpecLocal == InitLocal /\ [][NextLocal]_vars

----------------------------------------------------------------------------
(* One ContentAnalyzer instance, called again and again with the logged    *)
(* values of AnalyzerInputs in any order.                                  *)

InitAnalyzer ==
    /\ now = 0
    /\ CacheConstructed(MaxCap)
    /\ ClientConstructed(NoKey, TRUE)
    /\ EngineConstructed([apiKey |-> NoKey, humorLevel |-> "mild",
                          fallbackToLocal |-> TRUE, cacheSize |-> MaxCap],
                         initializeDefaultHumor)
    /\ AnalyzerConstructed
    /\ NoRoast

NextAnalyzer == \E i \in 1..Len(AnalyzerInputs) : Analyze(i)

SpecAnalyzer == InitAnalyzer /\ [][NextAnalyzer]_vars

----------------------------------------------------------------------------
(* One LoggerInterceptor, constructed while console.log holds the native   *)
(* function, against its three interfaces: the configuration manager       *)
(* returns one configuration or throws, the content analyzer returns or    *)
(* throws, the humor engine's promise settles with a text, without one or  *)
(* rejects.  console.log is called while intercepted and while not.        *)

InterceptorConfigs ==
    { Merge(defaultConfig, [enabled |-> b, frequency |-> f]) :
        b \in BOOLEAN, f \in {0, 50, 100} }

InitInterceptor ==
    /\ now = 0
    /\ CacheConstructed(MaxCap)
    /\ ClientConstructed(NoKey, TRUE)
    /\ EngineConstructed([apiKey |-> NoKey, humorLevel |-> "mild",
                          fallbackToLocal |-> TRUE, cacheSize |-> MaxCap],
                         initializeDefaultHumor)
    /\ AnalyzerConstructed
    /\ managerConfig \in InterceptorConfigs
    /\ isInitialized = FALSE
    /\ isEnabled = FALSE
    /\ consoleLog = Native
    /\ InterceptorsConstructed(Native)
    /\ logs = [p \in LogProcs |-> IdleLog]
    /\ thrown = Outcome("new", NoError)

NextInterceptor ==
    \/ Intercept(loggerInterceptor)
    \/ Restore(loggerInterceptor)
    \/ InterceptorResetStats(loggerInterceptor)
    \/ \E p \in LogProcs, call \in LogArgs, getConfigThrows, analyzeThrows \in BOOLEAN :
          ConsoleLog(p, call, MaxLogs, getConfigThrows, analyzeThrows)
    \/ \E p \in LogProcs, outcome \in HumorOutcomes : HumorSettles(p, outcome)

SpecInterceptor == InitInterceptor /\ [][NextInterceptor]_vars

\* the lines of a given kind among the lines a call has written
LinesOf(kind, written) == SelectSeq(written, LAMBDA l : l.kind = kind)

\* C21: every call of the intercepted console.log passes its own arguments
\* to the original console.log exactly once, before any annotation line of
\* that call, and throws nothing to its caller, whatever the arguments and
\* the configuration are and whether or not the configuration manager, the
\* content analyzer or the humor engine fail; a call whose annotation failed
\* has written no line besides the original one.
C21_OriginalLineShown ==
    \A p \in LogProcs :
       (logs[p].via # "" /\ logs[p].pc # "idle") =>
          /\ Len(logs[p].written) >= 1
          /\ logs[p].written[1] = OriginalLine(logs[p].args)
          /\ Len(LinesOf("original", logs[p].written)) = 1
          /\ ~logs[p].threw
          /\ logs[p].warned => Len(logs[p].written) = 1

\* C21 as the code has it: every call of the intercepted console.log passes
\* its arguments, or the single argument undefined when it has none, to the
\* original console.log exactly once, before any annotation line of that
\* call, and throws nothing to its caller, whatever the configuration is
\* and whether or not the configuration manager, the content analyzer or
\* the humor engine fail; a call whose annotation failed has written no line
\* besides the original one.
C21_OriginalLineShownOnce ==
    \A p \in LogProcs :
       (logs[p].via # "" /\ logs[p].pc # "idle") =>
          /\ Len(logs[p].written) >= 1
          /\ logs[p].written[1] =
                OriginalLine(IF logs[p].args = <<>> THEN <<JsUndefined>>
                             ELSE logs[p].args)
          /\ Len(LinesOf("original", logs[p].written)) = 1
          /\ ~logs[p].threw
          /\ logs[p].warned => Len(logs[p].written) = 1

\* an intercepted call without arguments whose humor promise was rejected,
\* and an intercepted call with two arguments that has written its
\* annotation
C21_Witness ==
    /\ logs["l1"].via # "" /\ logs["l1"].args = <<>> /\ logs["l1"].pc = "done"
    /\ logs["l1"].attempt /\ logs["l1"].warned
    /\ logs["l2"].via # "" /\ Len(logs["l2"].args) = 2 /\ logs["l2"].pc = "done"
    /\ Len(logs["l2"].written) = 2

----------------------------------------------------------------------------
(* The frequency gate: one enabled LoggerInterceptor with a fixed          *)
(* frequency, console.log called one call after the other up to            *)
(* MaxGateLogs counted calls, resetStats at any time.                      *)

GateFrequencies == {0, 1, 30, 99, 100}
GateConfigs == { Merge(defaultConfig, [frequency |-> f]) : f \in GateFrequencies }
GateProc == "l1"
GateArgs == <<JsString(Chars("error"))>>

InitGate ==
    /\ now = 0
    /\ CacheConstructed(MaxCap)
    /\ ClientConstructed(NoKey, TRUE)
    /\ EngineConstructed([apiKey |-> NoKey, humorLevel |-> "mild",
                          fallbackToLocal |-> TRUE, cacheSize |-> MaxCap],
                         initializeDefaultHumor)
    /\ AnalyzerConstructed
    /\ managerConfig \in GateConfigs
    /\ isInitialized = FALSE
    /\ isEnabled = FALSE
    /\ consoleLog = Native
    /\ InterceptorsConstructed(Native)
    /\ logs = [p \in LogProcs |-> IdleLog]
    /\ thrown = Outcome("new", NoError)

NextGate ==
    \/ Intercept(loggerInterceptor)
    \/ InterceptorResetStats(loggerInterceptor)
    \/ ConsoleLog(GateProc, GateArgs, MaxGateLogs, FALSE, FALSE)
    \/ HumorSettles(GateProc, "text")

SpecGate == InitGate /\ [][NextGate]_vars

\* the attempts among the counted calls number from + 1 .. from + 100
AttemptsInWindow(cfg, from) ==
    Cardinality({ n \in (from + 1)..(from + 100) : shouldApplyHumor(cfg, n) })

\* C22: with the library enabled, a counted call starts an annotation
\* attempt never with frequency 0, always with frequency 100, and with a
\* frequency f in between exactly when (n mod 100) < f, n being the number
\* of the call among the counted calls since the last resetStats; so the
\* next 100 counted calls hold exactly f attempts, wherever the counter
\* stands.
C22_FrequencyGate ==
    LET f == managerConfig.frequency
    IN /\ \A p \in LogProcs :
             logs[p].counted =>
                /\ f = 0 => ~logs[p].attempt
                /\ f = 100 => logs[p].attempt
                /\ (0 < f /\ f < 100) => (logs[p].attempt <=> (logs[p].n % 100) < f)
       /\ AttemptsInWindow(managerConfig, logCount[loggerInterceptor]) = f

\* the 100th counted call since construction, with frequency 30, has
\* started an attempt
C22_Witness ==
    /\ managerConfig.frequency = 30
    /\ logCount[loggerInterceptor] = 100
    /\ logs[GateProc].counted /\ logs[GateProc].n = 100 /\ logs[GateProc].attempt

----------------------------------------------------------------------------
(* Claims about interception, checked under SpecInterceptor, where         *)
(* console.log holds the native function at the start and only the one     *)
(* interceptor replaces it                                                 *)

\* C23: intercept() on an intercepted interceptor and restore() on one that
\* is not intercepted change nothing, and whenever the interceptor is not
\* intercepted (at the start, and after every restore() that followed an
\* intercept()) console.log is the function that was installed when
\* intercept() took effect, here the native one.
C23_InterceptReversible ==
    /\ isIntercepted[loggerInterceptor] =>
          ~ENABLED (Intercept(loggerInterceptor) /\ vars' # vars)
    /\ ~isIntercepted[loggerInterceptor] =>
          /\ ~ENABLED (Restore(loggerInterceptor) /\ vars' # vars)
          /\ consoleLog = Native

----------------------------------------------------------------------------
(* One ConsoleRoast instance in a process whose console.log holds the      *)
(* native function: its methods called in any order, console.log called    *)
(* in between, results stored in its cache as the engine stores them.      *)

RoastInitials ==
    { [cacheSize |-> MaxCap, frequency |-> 100],
      [cacheSize |-> MaxCap, frequency |-> 100, enabled |-> FALSE] }

ValidPartials ==
    { [enabled |-> TRUE], [enabled |-> FALSE], [frequency |-> 50], [cacheSize |-> 1],
      [apiKey |-> "k1"] }

InvalidPartials ==
    { [humorLevel |-> "extreme"], [frequency |-> 101], [frequency |-> -1],
      [cacheSize |-> -1], [apiTimeout |-> 999], [apiKey |-> ""], [apiKey |-> " "],
      [enabled |-> TRUE, frequency |-> 101], [enabled |-> FALSE, cacheSize |-> -1] }

RoastProc == "l1"
RoastKeys == {"", "a"}
RoastResponse == "r1"

InitRoast ==
    /\ now = 0
    /\ \E initial \in RoastInitials : RoastConstructed(initial)

NextRoast ==
    \/ Enable
    \/ Disable
    \/ \E partial \in ValidPartials \cup InvalidPartials, ok \in BOOLEAN :
          Configure(partial, ok)
    \/ ClearCache
    \/ ResetStats
    \/ Cleanup
    \/ ConsoleLog(RoastProc, GateArgs, MaxRoastLogs, FALSE, FALSE)
    \/ \E outcome \in HumorOutcomes : HumorSettles(RoastProc, outcome)
    \/ \E k \in RoastKeys : CacheSet(k, RoastResponse)

SpecRoast == InitRoast /\ [][NextRoast]_vars

----------------------------------------------------------------------------
(* Claims about ConsoleRoast, checked under SpecRoast *)

\* the step is a console.log call by p
LogCalled(p) == logs[p].pc \in {"idle", "done"} /\ logs'[p] # logs[p]

\* what enable() and disable() work on
enablement == <<isEnabled, consoleLog, isIntercepted, originalConsoleLog>>

\* C24: on an initialized instance with frequency 100, every console.log
\* call made while isCurrentlyEnabled() is true starts an annotation attempt
\* and no call made while it is false does; an enable() on an enabled
\* instance and a disable() on a disabled one change nothing.
C24_EnableStartsAttempts ==
    [][ /\ \A p \in LogProcs :
             (LogCalled(p) /\ isInitialized /\ managerConfig.frequency = 100) =>
                (logs'[p].attempt <=> isEnabled)
        /\ (isInitialized /\ isEnabled) =>
              ~ENABLED (Enable /\ enablement' # enablement)
        /\ ~isEnabled => ~ENABLED (Disable /\ enablement' # enablement) ]_vars

\* the step would throw the given error and leave the configuration, the
\* enabled flag and console.log as they are
Rejects(error) ==
    /\ thrown'.error = error
    /\ UNCHANGED <<managerConfig, isEnabled, consoleLog>>

\* C25: once cleanup() has run, enable() and configure() with any partial
\* configuration throw 'ConsoleRoast not properly initialized' and change
\* neither the configuration, the enabled flag nor console.log, while
\* disable(), clearCache() and cleanup() can be called and throw nothing.
C25_UseAfterCleanup ==
    (~isInitialized /\ ~hung) =>
       /\ ENABLED Enable
       /\ ~ENABLED (Enable /\ ~Rejects(NotInitialized))
       /\ \A partial \in ValidPartials \cup InvalidPartials :
             /\ ENABLED Configure(partial, TRUE)
             /\ ~ENABLED (Configure(partial, TRUE) /\ ~Rejects(NotInitialized))
       /\ ENABLED Disable /\ ~ENABLED (Disable /\ thrown'.error # NoError)
       /\ ENABLED ClearCache /\ ~ENABLED (ClearCache /\ thrown'.error # NoError)
       /\ ENABLED Cleanup /\ ~ENABLED (Cleanup /\ thrown'.error # NoError)

\* an instance that was enabled and then cleaned up has rejected a
\* configure()
C25_Witness ==
    /\ ~isInitialized
    /\ thrown = Outcome("configure", NotInitialized)
    /\ ~isEnabled /\ Len(cache) = 0
    /\ consoleLog # Native /\ Target(consoleLog) = Native

EnabledAfter(partial) ==
    IF "enabled" \in DOMAIN partial THEN partial.enabled ELSE managerConfig.enabled

\* C27: every configure call on an initialized instance that is accepted and
\* returns leaves isCurrentlyEnabled() equal to the enabled field of the
\* merged configuration: with enabled true the instance's interceptor is
\* installed, with enabled false it is removed and console.log calls reach
\* the native function again.
C27_ConfigureDrivesEnablement ==
    (isInitialized /\ ~hung) =>
       \A partial \in ValidPartials, ok \in BOOLEAN :
          ~ENABLED (/\ Configure(partial, ok)
                    /\ ~hung'
                    /\ ~(/\ thrown'.error = NoError
                         /\ managerConfig'.enabled = EnabledAfter(partial)
                         /\ isEnabled' = EnabledAfter(partial)
                         /\ isIntercepted'[loggerInterceptor] = isEnabled'
                         /\ isEnabled' => consoleLog' = Enhanced(loggerInterceptor)
                         /\ ~isEnabled' => Target(consoleLog') = Native))

\* a configure call has disabled an instance that was enabled
C27_Witness ==
    /\ isInitialized
    /\ thrown = Outcome("configure", NoError)
    /\ ~managerConfig.enabled /\ ~isEnabled
    /\ consoleLog # Native /\ Target(consoleLog) = Native

\* C28: cleanup() can be called in every state of an instance, also a
\* disabled or cleaned-up one, throws nothing, and leaves
\* isCurrentlyEnabled() false, the instance's interceptor removed from
\* console.log, the instance not initialized and the cache empty.
C28_CleanupPostcondition ==
    ~hung =>
       /\ ENABLED Cleanup
       /\ ~ENABLED (/\ Cleanup
                    /\ ~(/\ thrown'.error = NoError
                         /\ ~isEnabled'
                         /\ ~isIntercepted'[loggerInterceptor]
                         /\ Target(consoleLog') = Native
                         /\ ~isInitialized'
                         /\ Len(cache') = 0))

\* cleanup() has run on an instance that had been enabled and had counted a
\* console.log call
C28_Witness ==
    /\ thrown = Outcome("cleanup", NoError)
    /\ ~isInitialized /\ ~isEnabled /\ Len(cache) = 0
    /\ consoleLog # Native /\ Target(consoleLog) = Native
    /\ logCount[loggerInterceptor] > 0

----------------------------------------------------------------------------
(* The orchestrator with a credential and a remote client, called by two   *)
(* overlapping callers with logged values that differ and are classified   *)
(* alike.                                                                  *)

RemoteInputs == {5, 6}

InitRemote ==
    /\ now = 0
    /\ \E level \in EngineLevels, ok \in BOOLEAN :
          /\ CacheConstructed(MaxCap)
          /\ ClientConstructed("k1", ok)
          /\ EngineConstructed([apiKey |-> "k1", humorLevel |-> level,
                                fallbackToLocal |-> TRUE, cacheSize |-> MaxCap],
                               initializeDefaultHumor)
    /\ AnalyzerConstructed
    /\ NoRoast

NextRemote ==
    \/ \E p \in EngProcs, i \in RemoteInputs, getThrows \in BOOLEAN :
          EngineStart(p, i, getThrows, FALSE)
    \/ \E p \in EngProcs, r \in ApiResults : EngineApiSettles(p, r, FALSE)

SpecRemote == InitRemote /\ [][NextRemote]_vars

\* C29: the text a call hands to the remote client is the sanitizedContent
\* of its classification, next to the classification itself, so two calls
\* whose classifications are equal hand over equal requests, whatever the
\* logged values are.
C29_OnlySanitizedLeaves ==
    \A p, q \in EngProcs :
       (eng[p].api /\ eng[q].api) =>
          /\ Len(eng[p].request) = 1
          /\ eng[p].request[1].content = Inputs[eng[p].input].analysis.sanitizedContent
          /\ Inputs[eng[p].input].analysis = Inputs[eng[q].input].analysis =>
                eng[p].request = eng[q].request

\* two calls with different logged values and equal classifications have
\* both gone to the remote client
C29_Witness ==
    /\ eng["e1"].api /\ eng["e2"].api
    /\ eng["e1"].input = 5 /\ eng["e2"].input = 6
    /\ Inputs[5].content # Inputs[6].content
    /\ Inputs[5].analysis = Inputs[6].analysis

----------------------------------------------------------------------------
(* A claim about ConsoleRoast.getMetrics, checked under SpecCache: the     *)
(* metric is computed from the cache's size and counters alone             *)

\* C30: after any sequence of cache operations, getMetrics().cacheHits is
\* the number of lookups that found an entry since the statistics were last
\* cleared.
C30_CacheHitsMetric == ~hung => cacheHits = hits

----------------------------------------------------------------------------
(* HumorEngine.selectHumorType on its own: the category chosen for every   *)
(* classification over a few data types, patterns and sentiments           *)

SelectDataTypes ==
    {<<>>, <<Chars("string")>>, <<Chars("object")>>, <<Chars("array")>>,
     <<Chars("string"), Chars("number")>>}

SelectPatterns == {<<>>, <<Chars("json")>>, <<Chars("array")>>, <<Chars("error")>>}

Classifications ==
    [dataTypes : SelectDataTypes, isError : BOOLEAN,
     sentiment : {"positive", "negative", "neutral"}, patterns : SelectPatterns]

\* one call of selectHumorType, by generateLocalHumor
SelectHumorType(a) ==
    /\ ~hung
    /\ selected' = <<[analysis |-> a, type |-> selectHumorType(a)]>>
    /\ UNCHANGED <<now, cacheVars, clientVars, config, humorEntries, eng, analyzerVars,
                   roastVars>>

InitSelect ==
    /\ now = 0
    /\ CacheConstructed(MaxCap)
    /\ ClientConstructed("", FALSE)
    /\ EngineConstructed([apiKey |-> "", humorLevel |-> "mild",
                          fallbackToLocal |-> TRUE, cacheSize |-> MaxCap],
                         initializeDefaultHumor)
    /\ AnalyzerConstructed
    /\ NoRoast

NextSelect == \E a \in Classifications : SelectHumorType(a)

SpecSelect == InitSelect /\ [][NextSelect]_vars

\* the classification lists a JSON or array pattern, or an object or array
\* data type
hasStructuredData(a) ==
    \/ Chars("json") \in Range(a.patterns) \/ Chars("array") \in Range(a.patterns)
    \/ Chars("object") \in Range(a.dataTypes) \/ Chars("array") \in Range(a.dataTypes)

\* C32 Category precedence: selectHumorType returns 'error' whenever the
\* classification is an error or its sentiment is negative, otherwise
\* 'success' when the sentiment is positive, otherwise 'data' when the
\* classification has data types, otherwise 'general'.
C32_CategoryPrecedence ==
    selected # <<>> =>
       selected[1].type =
          (IF selected[1].analysis.isError \/ selected[1].analysis.sentiment = "negative"
           THEN "error"
           ELSE IF selected[1].analysis.sentiment = "positive" THEN "success"
           ELSE IF Len(selected[1].analysis.dataTypes) > 0 THEN "data"
           ELSE "general")

\* C32 as the code has it: 'error' whenever the classification is an error
\* or its sentiment is negative, otherwise 'success' when the sentiment is
\* positive, otherwise 'data' when the patterns include json or array or
\* the data types include object or array, otherwise 'general'.
C32_CategoryPrecedenceStructured ==
    selected # <<>> =>
       LET a == selected[1].analysis
       IN  /\ (a.isError \/ a.sentiment = "negative") => selected[1].type = "error"
           /\ (~a.isError /\ a.sentiment = "positive") => selected[1].type = "success"
           /\ (~a.isError /\ a.sentiment = "neutral" /\ hasStructuredData(a)) =>
                 selected[1].type = "data"
           /\ (~a.isError /\ a.sentiment = "neutral" /\ ~hasStructuredData(a)) =>
                 selected[1].type = "general"

\* a positive classification of an object was selected: the sentiment wins
C32_Witness ==
    /\ selected # <<>>
    /\ ~selected[1].analysis.isError
    /\ selected[1].analysis.sentiment = "positive"
    /\ selected[1].analysis.dataTypes = <<Chars("object")>>
    /\ selected[1].type = "success"

----------------------------------------------------------------------------
(* One client with a credential and two callers whose generateHumor calls  *)
(* overlap: each await of a call is a point where the other call runs      *)

MaxAnswered == 2    \* answered requests followed in one rate-limit window

OverlapOutcomes == {"text", "reject"}

InitOverlap ==
    /\ now = 0
    /\ CacheConstructed(0)
    /\ ClientConstructed("k1", TRUE)
    /\ EngineConstructed([apiKey |-> "k1", humorLevel |-> "mild",
                          fallbackToLocal |-> TRUE, cacheSize |-> 0],
                         initializeDefaultHumor)
    /\ AnalyzerConstructed
    /\ NoRoast

NextOverlap ==
    \/ ClientTick
    \/ \E p \in Procs : ClientStart(p)
    \/ \E p \in Procs, o \in OverlapOutcomes :
          /\ Resolved(o) => rateLimitInfo.remaining > requestsPerMinute - MaxAnswered
          /\ ClientSettle(p, o)
    \/ \E p \in Procs : ClientBackoffEnds(p)

SpecOverlap == InitOverlap /\ [][NextOverlap]_vars

\* C33 Breaker consistency: in every reachable state of a client, under any
\* interleaving of overlapping generateHumor calls, an open or half-open
\* breaker goes with failureCount >= 5 and a lastFailureTime that is set,
\* and a closed breaker with failureCount < 5.
C33_BreakerConsistent ==
    /\ circuitBreakerState \in {"open", "half-open"} =>
          (failureCount >= 5 /\ lastFailureTime # NoTime)
    /\ circuitBreakerState = "closed" => failureCount < 5

\* a call that entered before the breaker opened is still waiting for its
\* answer while the other call has taken the breaker to half-open
C33_Witness ==
    /\ circuitBreakerState = "half-open"
    /\ calls["c1"].pc = "awaiting" /\ ~calls["c1"].probe
    /\ calls["c2"].pc = "awaiting" /\ calls["c2"].probe

\* call p makes a transport request in this step
Invokes(p) == calls[p].pc # "awaiting" /\ calls'[p].pc = "awaiting"

\* C34 No request through an open breaker: no transport invocation is
\* started while the breaker is open, under any interleaving of overlapping
\* generateHumor calls on one client, the retries of calls entered before
\* the breaker opened included.
C34_NoInvocationWhileOpen ==
    [][\A p \in Procs : Invokes(p) => circuitBreakerState' # "open"]_vars

----------------------------------------------------------------------------
(* A claim about the calls that end before the retry loop, checked under   *)
(* SpecClient, where the configuration is replaced between calls           *)

\* call c1 is entered in this step and ends in it, refused for the missing
\* client or for the rate limit
RefusedBeforeTransport ==
    /\ ClientStart("c1")
    /\ calls'["c1"].pc = "done"
    /\ calls'["c1"].result \in {<<Failure(ErrUnavailable)>>, <<Failure(ErrRateLimit)>>}

\* C35 Short circuits leave the client alone: a generateHumor call that
\* fails without a transport attempt because the client is unavailable or
\* the rate limit is exhausted leaves the breaker state, failureCount,
\* lastFailureTime and the remaining quota as they were before the call, and
\* after every completed call the breaker is closed or open, never
\* half-open.
C35_ShortCircuitFrame ==
    [][/\ RefusedBeforeTransport =>
             /\ UNCHANGED <<circuitBreakerState, failureCount, lastFailureTime>>
             /\ rateLimitInfo'.remaining = rateLimitInfo.remaining
       /\ (calls'["c1"].pc = "done" /\ calls'["c1"] # calls["c1"]) =>
             circuitBreakerState' \in {"closed", "open"}]_vars

----------------------------------------------------------------------------
(* The orchestrator with a remote client, called by two overlapping callers *)
(* with the same logged value, and so the same cache key, while the cache  *)
(* may be cleared                                                          *)

\* the logged value both callers pass: 'a@b.co'
SameKeyInputs == {5}

InitSameKey ==
    /\ now = 0
    /\ \E level \in EngineLevels :
          /\ CacheConstructed(MaxCap)
          /\ ClientConstructed("k1", TRUE)
          /\ EngineConstructed([apiKey |-> "k1", humorLevel |-> level,
                                fallbackToLocal |-> TRUE, cacheSize |-> MaxCap],
                               initializeDefaultHumor)
    /\ AnalyzerConstructed
    /\ NoRoast

NextSameKey ==
    \/ \E p \in EngProcs, i \in SameKeyInputs : EngineStart(p, i, FALSE, FALSE)
    \/ \E p \in EngProcs, r \in ApiResults : EngineApiSettles(p, r, FALSE)
    \/ CacheClear

SpecSameKey == InitSameKey /\ [][NextSameKey]_vars

\* C36 A cached remote annotation is not downgraded: once a source = api
\* annotation is stored under a key, it is never replaced by a source =
\* local annotation for that key while it stays in the cache, under any
\* interleaving of overlapping generateHumor calls with the same key.
C36_NoDowngrade ==
    [][\A k \in MapKeys(cache) \cap MapKeys(cache') :
          MapGet(cache, k).response.source = "api" =>
             MapGet(cache', k).response.source # "local"]_vars

----------------------------------------------------------------------------
(* Two LoggerInterceptors (two ConsoleRoast instances in one process),     *)
(* both constructed while console.log holds the native function; each      *)
(* intercepts and restores on its own, and console.log is called in        *)
(* between.  A call is followed where the interceptor it enters writes     *)
(* through the native function.                                            *)

StackProc == "l1"

InitStack ==
    /\ now = 0
    /\ CacheConstructed(MaxCap)
    /\ ClientConstructed(NoKey, TRUE)
    /\ EngineConstructed([apiKey |-> NoKey, humorLevel |-> "mild",
                          fallbackToLocal |-> TRUE, cacheSize |-> MaxCap],
                         initializeDefaultHumor)
    /\ AnalyzerConstructed
    /\ managerConfig \in InterceptorConfigs
    /\ isInitialized = FALSE
    /\ isEnabled = FALSE
    /\ consoleLog = Native
    /\ InterceptorsConstructed(Native)
    /\ logs = [p \in LogProcs |-> IdleLog]
    /\ thrown = Outcome("new", NoError)

NextStack ==
    \/ \E i \in Interceptors : Intercept(i)
    \/ \E i \in Interceptors : Restore(i)
    \/ \E call \in LogArgs : ConsoleLog(StackProc, call, MaxLogs, FALSE, FALSE)
    \/ \E outcome \in HumorOutcomes : HumorSettles(StackProc, outcome)

SpecStack == InitStack /\ [][NextStack]_vars

\* C37 Stacked interceptors unwind cleanly: when two LoggerInterceptor
\* instances have both intercepted console.log and both have then restored,
\* in either order, console.log is the function that was installed before
\* the first intercept and neither instance's wrapper remains installed.
\* The function is compared up to binding: a bound copy of the function
\* installed before counts as that function.
C37_StackUnwinds ==
    (\A i \in Interceptors : ~isIntercepted[i]) => Target(consoleLog) = Native

----------------------------------------------------------------------------
(* A claim about the annotations of calls that are still waiting for the   *)
(* humor engine, checked under SpecInterceptor                             *)

\* call p writes its annotation line in this step
Annotates(p) ==
    /\ logs[p].pc = "awaiting"
    /\ logs'[p].pc = "done"
    /\ logs'[p].written = Append(logs[p].written, HumorLine)

\* C40 No annotation after restore: once restore() has returned, no
\* annotation line is written to the console until the next intercept(),
\* also not for console.log calls whose humor generation was still pending
\* when restore() was called.
C40_NoAnnotationAfterRestore ==
    [][\A p \in LogProcs : Annotates(p) => isIntercepted[logs[p].via]]_vars

----------------------------------------------------------------------------
(* A claim about configure calls that do not name the enabled field,       *)
(* checked under SpecRoast                                                 *)

\* C38 configure leaves enablement alone unless asked: a successful
\* configure call whose partial configuration does not contain the enabled
\* field leaves isCurrentlyEnabled() and the console.log interception
\* unchanged, also after the instance was enabled or disabled through
\* enable() or disable().
C38_ConfigureKeepsEnablement ==
    (isInitialized /\ ~hung) =>
       \A partial \in { q \in ValidPartials : "enabled" \notin DOMAIN q }, ok \in BOOLEAN :
          ~ENABLED (/\ Configure(partial, ok)
                    /\ ~hung'
                    /\ thrown'.error = NoError
                    /\ ~UNCHANGED <<isEnabled, consoleLog, isIntercepted>>)

----------------------------------------------------------------------------
(* A claim about CacheManager.setMaxSize, checked under SpecCache, where   *)
(* the Map holds its entries from the least to the most recently used      *)

\* the n most recently used entries of the Map m
MostRecent(m, n) == SubSeq(m, Len(m) - Min(Len(m), n) + 1, Len(m))

\* C39: setMaxSize(n) terminates for every n >= 0 in every reachable cache
\* state, entries stored under the empty string included, and leaves exactly
\* the min(size, n) most recently used entries in the cache.
C39_SetMaxSizeTerminates ==
    [][\A n \in 0..MaxCap :
          CacheSetMaxSize(n) => (~hung' /\ cache' = MostRecent(cache, n))]_vars

----------------------------------------------------------------------------
(* Claims about the orchestrator *)

Done(p) == eng[p].pc = "done"
Result(p) == eng[p].result[1]
\* the step ends a generateHumor call of p
Ends(p) == eng'[p] # eng[p] /\ eng'[p].pc = "done"
\* the step begins a generateHumor call of p
Begins(p) == eng[p].pc \in {"idle", "done"} /\ eng'[p] # eng[p]

\* C11 Fallback totality: every result generateHumor returns has a non-empty
\* text, whatever the cache holds and whatever the phrase table holds (an
\* empty table, entries added through addHumor).
C11_FallbackTotality ==
    \A p \in EngProcs : Done(p) => TruthyText(Result(p).text)

\* C12 No failure escapes the orchestrator, as claimed: a call in which the
\* remote call failed, or the cache lookup threw, or the cache write threw,
\* ends with a result whose source is local.
C12_NoFailureEscapes ==
    \A p \in EngProcs :
        Done(p) /\ (eng[p].apiOutcome = "failed" \/ eng[p].lookup = "threw" \/ eng[p].setThrew)
        => eng[p].result # <<>> /\ Result(p).source = "local"

\* C12 amended: every call ends with a result; after a failed remote call
\* the source is local; after a cache failure the source is api if the
\* remote call of that call returned a text and local otherwise.
C12_FailuresResolve ==
    \A p \in EngProcs :
        Done(p) =>
            /\ eng[p].result # <<>>
            /\ eng[p].apiOutcome = "failed" => Result(p).source = "local"
            /\ eng[p].lookup = "threw" \/ eng[p].setThrew
               => Result(p).source = IF eng[p].apiOutcome = "text" THEN "api" ELSE "local"

C12_Witness ==
    /\ Done("e1")
    /\ eng["e1"].lookup = "threw"
    /\ eng["e1"].apiOutcome = "failed"
    /\ Result("e1").source = "local"

\* C13 Cache hit short-circuits: a call that begins while the cache holds an
\* entry for its key (and whose lookup does not throw) ends in the same step
\* with that entry's text, confidence and source and cached = TRUE, without
\* invoking the remote client or the local generator; and a call reports a
\* hit only in that case.
C13_HitShortCircuits ==
    [][\A p \in EngProcs :
        Begins(p) /\ eng'[p].lookup # "threw"
        => LET key == CacheKeys[eng'[p].input][config.humorLevel]
           IN IF MapHas(cache, key)
              THEN LET stored == MapGet(cache, key).response
                   IN /\ eng'[p].pc = "done"
                      /\ eng'[p].lookup = "hit"
                      /\ eng'[p].result =
                            <<[text |-> stored.text, confidence |-> stored.confidence,
                               source |-> stored.source, cached |-> TRUE]>>
                      /\ ~eng'[p].api /\ ~eng'[p].local /\ ~eng'[p].setCalled
              ELSE eng'[p].lookup = "miss"]_vars

C13_Witness ==
    /\ Done("e1")
    /\ eng["e1"].lookup = "hit"
    /\ Result("e1").cached
    /\ Result("e1").source = "api"

\* C14 Write-back: with capacity above zero and no cache failure, a call
\* that ends after a miss returns its result with cached = FALSE and leaves
\* it stored under the call's key; and while that entry is still there, the
\* next call with the same input under a level that gives the same key
\* returns the same text, confidence and source with cached = TRUE.
C14_WriteBack ==
    [][\A p \in EngProcs :
        /\ Ends(p) /\ eng'[p].lookup = "miss" /\ ~eng'[p].setThrew /\ maxSize > 0
           => LET key == eng'[p].cacheKey[1]
              IN /\ ~eng'[p].result[1].cached
                 /\ eng'[p].result[1].source \in {"api", "local"}
                 /\ MapHas(cache', key)
                 /\ MapGet(cache', key).response = eng'[p].result[1]
        /\ /\ Begins(p) /\ Done(p) /\ eng[p].lookup = "miss" /\ eng[p].setCalled
           /\ ~eng[p].setThrew
           /\ eng'[p].input = eng[p].input /\ eng'[p].lookup # "threw"
           /\ CacheKeys[eng'[p].input][config.humorLevel] = eng[p].cacheKey[1]
           /\ MapHas(cache, eng[p].cacheKey[1])
           => eng'[p].result = <<[Result(p) EXCEPT !.cached = TRUE]>>]_vars

C14_Witness ==
    /\ Done("e1")
    /\ eng["e1"].lookup = "miss"
    /\ eng["e1"].setCalled /\ ~eng["e1"].setThrew
    /\ maxSize > 0
    /\ MapHas(cache, eng["e1"].cacheKey[1])
    /\ MapGet(cache, eng["e1"].cacheKey[1]).response = Result("e1")
    /\ Result("e1").source = "local"

\* C15 Confidence is fixed by origin: every result returned, fresh or served
\* from the cache, and every response the cache holds has source api with
\* confidence 0.9 or source local with confidence 0.7 (9 and 7 tenths).
C15_ConfidenceByOrigin ==
    LET byOrigin(r) == \/ r.source = "api" /\ r.confidence = 9
                       \/ r.source = "local" /\ r.confidence = 7
    IN /\ \A p \in EngProcs : eng[p].result # <<>> => byOrigin(Result(p))
       /\ \A i \in 1..Len(cache) : byOrigin(cache[i].response)

C15_Witness ==
    /\ Done("e1")
    /\ Result("e1").cached
    /\ Result("e1").source = "local"
    /\ Result("e1").confidence = 7
    /\ \E i \in 1..Len(cache) : cache[i].response.source = "api"

\* C16 Humor level separates cache entries: the key a call computes under the
\* configured humor level differs from the key of the same logged values and
\* classification under every other level, and a call served from the cache
\* is never given a phrase of another level than the configured one.
C16_LevelSeparatesKeys ==
    [][\A p \in EngProcs :
         Begins(p) /\ eng'[p].cacheKey # <<>> =>
           /\ \A l \in EngineLevels \ {config.humorLevel} :
                CacheKeys[eng'[p].input][l] # eng'[p].cacheKey[1]
           /\ eng'[p].lookup = "hit" =>
                \A l \in EngineLevels \ {config.humorLevel} :
                  \A category \in Range(Categories) :
                    eng'[p].result[1].text \notin Range(Phrases(category, l))]_vars

C18_CacheErrorsIsolated ==
    [][\A p \in EngProcs :
         /\ eng'[p] # eng[p] /\ eng'[p].lookup = "threw" =>
              /\ cache' = cache
              /\ ~eng'[p].setCalled
              /\ eng'[p].pc = "done" =>
                   /\ eng'[p].api \/ eng'[p].local
                   /\ TruthyText(eng'[p].result[1].text)
                   /\ ~eng'[p].result[1].cached
         /\ Begins(p) /\ Done(p) /\ eng[p].lookup = "threw"
              /\ eng'[p].lookup # "threw" =>
              LET key == CacheKeys[eng'[p].input][config.humorLevel]
              IN /\ eng'[p].cacheKey = <<key>>
                 /\ eng'[p].lookup = IF MapHas(cache, key) THEN "hit" ELSE "miss"
                 /\ eng'[p].pc = "done" /\ eng'[p].lookup = "miss"
                      /\ ~eng'[p].setThrew /\ maxSize > 0 =>
                      /\ eng'[p].setCalled
                      /\ MapHas(cache', key)]_vars

C18_Witness ==
    /\ Done("e1")
    /\ eng["e1"].lookup = "threw"
    /\ eng["e1"].api
    /\ Result("e1").source = "api"
    /\ cache = <<>>

\* C19 Classification is deterministic: on one ContentAnalyzer instance,
\* analyze applied to the same logged values returns the same classification
\* whatever calls were made before, so every classification returned equals
\* the one the first call of an instance returns for those values.
C19_Deterministic ==
    analysis # <<>> /\ ~analysis[1].raised =>
        analysis[1].value = analyze(analysis[1].input, fresh(errorPatterns)).value

\* C20 Classification terminates and never raises: no analyze call, on any
\* of the logged values and after any calls before it, has thrown.
C20_NeverRaises ==
    analysis # <<>> => ~analysis[1].raised

\* the points of a value against three thresholds
Tier(x, high, middle, low) ==
    IF x > high THEN 3 ELSE IF x > middle THEN 2 ELSE IF x > low THEN 1 ELSE 0

\* the depths of the object and array items of input i
ItemDepths(i) ==
    { getObjectDepth(AnalyzerInputs[i].heap, AnalyzerInputs[i].content[k], 0) :
        k \in { j \in 1..Len(AnalyzerInputs[i].content) :
                  /\ typeof(AnalyzerInputs[i].content[j]) = "object"
                  /\ AnalyzerInputs[i].content[j].tag # "null" } }

\* the score of input i with one contribution for the greatest depth
ScoreByGreatestDepth(i) ==
    Tier(Len(Processed[i].processedContent), 5000, 1000, 50)
    + Tier(Len(AnalyzerInputs[i].content), 8, 5, 3)
    + Tier(MaxOf(ItemDepths(i) \cup {0}), 4, 3, 1)
    + (IF Processed[i].isError THEN 1 ELSE 0)

\* C31 Complexity scoring: the complexity an analyze call returns is the one
\* of the score that adds the points for the serialized length (>5000: 3,
\* >1000: 2, >50: 1), for the number of arguments (>8: 3, >5: 2, >3: 1), one
\* contribution for the greatest nesting depth over the object and array
\* items (>4: 3, >3: 2, >1: 1) and 1 if an error pattern matches the text:
\* complex from 4, medium from 1, simple below.
C31_ComplexityScoring ==
    analysis # <<>> /\ ~analysis[1].raised =>
        analysis[1].value[1].complexity =
            (IF ScoreByGreatestDepth(analysis[1].input) >= 4 THEN "complex"
             ELSE IF ScoreByGreatestDepth(analysis[1].input) >= 1 THEN "medium"
             ELSE "simple")

====
